---- MODULE Spec2Model ----
(***************************************************************************)
(* Model of the 1C synchronisation engine of the Mavis HR bot:             *)
(*   app/db/sync_1c.py            pivot synchroniser (sync_pivot)          *)
(*   app/db/users.py              User.to_pivot_table_format               *)
(*   app/db/organization.py       CompanySegmentDetector                   *)
(*   app/services/utils.py        phone / set-field normalisers            *)
(*   app/services/pulse_creator.py  HolidayChecker, PulseTaskCreator       *)
(*                                                                         *)
(* Representation of Python values                                         *)
(*   date object        day number since 1970-01-01 (NoDate for None)      *)
(*   'YYYY-MM-DD' text   <<y, m, d>>  (<<>> for None)                      *)
(*   str                 TLA+ string ("None" stands for Python None)       *)
(*   list / joined str   sequence (<<>> for None: the code never stores an *)
(*                       empty list or empty joined string)                *)
(*   phone text          sequence of comma separated parts, each part a    *)
(*                       sequence of blank separated tokens, each token    *)
(*                       [plus, digits]: whether it starts with '+' and    *)
(*                       the digits left by re.sub(r'\D', '', ...)         *)
(***************************************************************************)
EXTENDS Integers, Sequences, FiniteSets, TLC

VARIABLES
    today,          \* datetime.now().date()
    pivot,          \* pivot table of the store: sequence of records, _id = index
    tasks,          \* pulse-task table of the store: sequence of records
    pc,             \* position of the sync job
    users_from_1c,  \* sync_pivot argument: snils -> User (NoUser when absent)
    users_in_pivot, \* sync_pivot argument: snils -> pivot row (NoRow when absent)
    todo,           \* source identities the first loop of sync_pivot has not reached
    to_archive,     \* users_to_archive not yet handled by the second loop
    step,           \* outcome of the last per-identity iteration of sync_pivot
    write_failed,   \* some pivot write of the running pass failed
    pulse,          \* frame of create_pulse / create_tasks / _create_single_task
    report,         \* counters of the running sync_pivot
    auth,           \* authorization table of the store: row id -> record
    sa,             \* frame of sync_auth
    faults,         \* store calls that have failed so far
    pending,        \* identities of the source whose last pivot create or update failed
    twice,          \* what a pass knows of the pass before it
    now_msk,        \* the wall clock of the schedulers, Moscow time
    daily,          \* the scheduler coroutines
    rc,             \* frame of check_and_update_roles
    override,       \* row id -> the row as change_user_role last wrote it
    sending,        \* frame of send_daily_pulses
    fetched,        \* what get_all_1c_users got of the 1C table
    auth_cache,     \* cache.py auth_cache: user_id -> role
    registered,     \* user_id -> the row its last registration wrote
    access,         \* what get_user_access_and_role last returned
    arg,            \* argument of the pure function under check
    res             \* its result

vars == <<today, pivot, tasks, pc, users_from_1c, users_in_pivot, todo,
          to_archive, step, write_failed, pulse, report, auth, sa, faults, pending, twice, now_msk, daily, rc, override, sending, fetched, auth_cache, registered, access, arg, res>>

None == "None"
NoDate == 0 - 1
NoDateStr == <<>>

-----------------------------------------------------------------------------
(* Bounds *)

MaxPivot == 2
MaxTasks == 3
MaxAuth == 2
MaxFaults == 1
RoleSpan == 8
HolidaySpan == 800
PollSpan == 372

-----------------------------------------------------------------------------
(* datetime.date arithmetic (proleptic Gregorian calendar) *)

\* date(y, m, d) as a day number
days_from_civil(y, m, d) ==
    LET yy  == IF m <= 2 THEN y - 1 ELSE y
        era == yy \div 400
        yoe == yy - era * 400
        mp  == (m + 9) % 12
        doy == (153 * mp + 2) \div 5 + d - 1
        doe == yoe * 365 + yoe \div 4 - yoe \div 100 + doy
    IN  era * 146097 + doe - 719468

\* <<year, month, day>> of a day number
civil_from_days(z) ==
    LET zz  == z + 719468
        era == zz \div 146097
        doe == zz - era * 146097
        yoe == (doe - doe \div 1460 + doe \div 36524 - doe \div 146096) \div 365
        doy == doe - (365 * yoe + yoe \div 4 - yoe \div 100)
        mp  == (5 * doy + 2) \div 153
        d   == doy - (153 * mp + 2) \div 5 + 1
        m   == IF mp < 10 THEN mp + 3 ELSE mp - 9
        y   == yoe + era * 400
    IN  <<IF m <= 2 THEN y + 1 ELSE y, m, d>>

\* date.weekday(): Monday = 0 ... Sunday = 6 (1970-01-01 was a Thursday)
weekday(z) == (z + 3) % 7

\* date.isoformat() / strftime('%Y-%m-%d')
isoformat(z) == IF z = NoDate THEN NoDateStr ELSE civil_from_days(z)

IsLeap(y) == (y % 4 = 0 /\ y % 100 # 0) \/ y % 400 = 0

DaysInMonth(y, m) ==
    IF m = 2 THEN (IF IsLeap(y) THEN 29 ELSE 28)
    ELSE IF m \in {4, 6, 9, 11} THEN 30 ELSE 31

\* datetime.strptime(s, '%Y-%m-%d').date(); NoDate when it raises
strptime(s) ==
    IF Len(s) = 3 /\ s[2] \in 1..12 /\ s[3] >= 1 /\ s[3] <= DaysInMonth(s[1], s[2])
    THEN days_from_civil(s[1], s[2], s[3])
    ELSE NoDate

\* z - relativedelta(years=1): same month and day a year earlier, the day
\* clipped to the length of the month
minus_one_year(z) ==
    LET c == civil_from_days(z)
        d == IF c[3] > DaysInMonth(c[1] - 1, c[2]) THEN DaysInMonth(c[1] - 1, c[2]) ELSE c[3]
    IN  days_from_civil(c[1] - 1, c[2], d)

\* z - relativedelta(months=3): same day three months earlier, the day
\* clipped to the length of the month
minus_three_months(z) ==
    LET c == civil_from_days(z)
        y == IF c[2] > 3 THEN c[1] ELSE c[1] - 1
        m == IF c[2] > 3 THEN c[2] - 3 ELSE c[2] + 9
        d == IF c[3] > DaysInMonth(y, m) THEN DaysInMonth(y, m) ELSE c[3]
    IN  days_from_civil(y, m, d)

-----------------------------------------------------------------------------
(* HolidayChecker *)

FIXED_HOLIDAYS ==
    { <<1, 1>>, <<2, 1>>, <<3, 1>>, <<4, 1>>, <<5, 1>>, <<6, 1>>, <<8, 1>>, <<7, 1>>,
      <<23, 2>>, <<8, 3>>, <<1, 5>>, <<9, 5>>, <<12, 6>>, <<4, 11>>, <<31, 12>> }

is_holiday(check_date) ==
    LET c == civil_from_days(check_date)
    IN  \/ <<c[3], c[2]>> \in FIXED_HOLIDAYS
        \/ (c[2] = 1 /\ 1 <= c[3] /\ c[3] <= 8)

is_weekend_sunday_only(check_date) == weekday(check_date) >= 6

is_weekend(check_date) == weekday(check_date) >= 5

is_non_working_day(check_date) == is_holiday(check_date) \/ is_weekend(check_date)

RECURSIVE get_next_working_day(_)
get_next_working_day(check_date) ==
    IF is_non_working_day(check_date)
    THEN get_next_working_day(check_date + 1)
    ELSE check_date

adjust_poll_date(poll_date) ==
    IF is_non_working_day(poll_date)
    THEN get_next_working_day(poll_date)
    ELSE poll_date

-----------------------------------------------------------------------------
(* PulseTaskCreator: pure parts *)

\* POLL_TYPES in the insertion order of the dict
POLL_ORDER == <<"1_week", "1_month", "3_months", "6_months", "1_year">>

POLL_TYPES ==
    [t \in {"1_week", "1_month", "3_months", "6_months", "1_year"} |->
        CASE t = "1_week"   -> 7
          [] t = "1_month"  -> 30
          [] t = "3_months" -> 91
          [] t = "6_months" -> 183
          [] t = "1_year"   -> 365]

Range(s) == { s[i] : i \in DOMAIN s }

_parse_date(date_str) == IF date_str = NoDateStr THEN NoDate ELSE strptime(date_str)

get_needed_polls_inclusive(employment_date, now) ==
    IF employment_date = NoDate THEN <<>>
    ELSE IF now > employment_date + 365 THEN <<>>
    ELSE LET Due(t) == employment_date + POLL_TYPES[t] >= now
         IN  SelectSeq(POLL_ORDER, Due)

_get_needed_polls(employment_date, now) ==
    IF employment_date = NoDate THEN <<>>
    ELSE IF now > employment_date + 365 THEN <<>>
    ELSE LET Due(t) == employment_date + POLL_TYPES[t] > now
         IN  SelectSeq(POLL_ORDER, Due)

\* <<adjusted_date, was_adjusted>>
_calculate_and_adjust_poll_date(employment_date, poll_type) ==
    LET poll_date == employment_date + POLL_TYPES[poll_type]
        adjusted  == adjust_poll_date(poll_date)
    IN  <<adjusted, poll_date # adjusted>>

-----------------------------------------------------------------------------
(* app/services/utils.py *)

NoPhone == <<>>

\* re.sub(r'\D', '', raw) of a part: the digits of its tokens, in order
RECURSIVE DigitsOf(_)
DigitsOf(part) ==
    IF part = <<>> THEN <<>> ELSE Head(part).digits \o DigitsOf(Tail(part))

\* a canonical number as phone text: one part made of one token
PhoneText(plus, digits) == << << [plus |-> plus, digits |-> digits] >> >>

\* the same, with a leading 8 left as it is
normalize_phone_keeps_8(raw) ==
    LET digits == DigitsOf(raw)
    IN  IF digits = <<>> THEN NoPhone
        ELSE IF Len(digits) = 7 THEN PhoneText(FALSE, digits)
        ELSE IF Len(digits) = 10 THEN PhoneText(TRUE, <<7>> \o digits)
        ELSE IF Len(digits) = 11 /\ digits[1] \in {7, 8} THEN PhoneText(TRUE, digits)
        ELSE NoPhone

normalize_phone(raw) ==
    LET digits == DigitsOf(raw)
    IN  IF digits = <<>> THEN NoPhone
        ELSE IF Len(digits) = 7 THEN PhoneText(FALSE, digits)
        ELSE IF Len(digits) = 10 THEN PhoneText(TRUE, <<7>> \o digits)
        ELSE IF Len(digits) = 11 /\ digits[1] = 8 THEN PhoneText(TRUE, <<7>> \o Tail(digits))
        ELSE IF Len(digits) = 11 /\ digits[1] = 7 THEN PhoneText(TRUE, digits)
        ELSE NoPhone

\* the loop over part.split(): every token normalised on its own
RECURSIVE NormalizeTokens(_)
NormalizeTokens(part) ==
    IF part = <<>> THEN <<>>
    ELSE LET n == normalize_phone(<<Head(part)>>)
         IN  (IF n # NoPhone THEN <<n>> ELSE <<>>) \o NormalizeTokens(Tail(part))

RECURSIVE normalize_phones_string(_)
normalize_phones_string(phones_string) ==
    IF phones_string = <<>> THEN <<>>
    ELSE LET part   == Head(phones_string)
             single == normalize_phone(part)
             found  == IF part = <<>> THEN <<>>
                       ELSE IF single # NoPhone THEN <<single>>
                       ELSE IF Len(DigitsOf(part)) = 7 THEN <<>>
                       ELSE NormalizeTokens(part)
         IN  found \o normalize_phones_string(Tail(phones_string))

\* val is None or a list of phone texts
phones_to_set(val) ==
    IF val = <<>> THEN {}
    ELSE UNION { Range(normalize_phones_string(val[i])) : i \in DOMAIN val }

\* val is None or a comma joined string, given as the sequence of its items
values_to_set(val) ==
    IF val = <<>> THEN {}
    ELSE { val[i] : i \in DOMAIN val } \ {""}

\* val is None or a list
surname_to_str(val) == IF val = <<>> THEN "" ELSE val[1]

-----------------------------------------------------------------------------
(* app/db/organization.py *)

MAVIS == "MAVIS"
VOTONYA == "VOTONYA"
BOTH == "BOTH"

\* the company, department and position names of the model, in the order
\* sorted() gives them
NAME_ORDER == <<"Engineer", "Gazprom", "IT", "Manager", "Mavis-Stroy", "Sales", "Votonya">>

\* 'вотоня' in cleaned
ContainsVotonya(name) == name \in {"Votonya"}

_is_in_mavis_list(name) == name \in {"Mavis-Stroy"}

detect_segment_for_companies(company_names) ==
    IF company_names = {} THEN MAVIS
    ELSE IF Cardinality(company_names) = 1 /\ \A c \in company_names : ContainsVotonya(c)
         THEN VOTONYA
    ELSE IF \A c \in company_names : _is_in_mavis_list(c) THEN MAVIS
    ELSE BOTH

-----------------------------------------------------------------------------
(* app/db/users.py *)

\* ', '.join(sorted(names))
JoinSorted(names) == LET In(n) == n \in names IN SelectSeq(NAME_ORDER, In)

RECURSIVE MinDate(_, _)
MinDate(earliest, employments) ==
    IF employments = <<>> THEN earliest
    ELSE LET d == Head(employments).date_employment
         IN  MinDate(IF d # NoDate /\ (earliest = NoDate \/ d < earliest) THEN d ELSE earliest,
                     Tail(employments))

to_pivot_table_format(user) ==
    LET companies   == { user.employments[i].company : i \in DOMAIN user.employments } \ {""}
        departments == { user.employments[i].department : i \in DOMAIN user.employments } \ {"", None}
        positions   == { user.employments[i].position : i \in DOMAIN user.employments } \ {"", None}
        earliest    == MinDate(user.date_employment, user.employments)
    IN  [ Name             |-> user.id,
          FIO              |-> user.fio,
          Previous_surname |-> user.previous_surname,
          Company_segment  |-> detect_segment_for_companies(companies),
          Companies        |-> JoinSorted(companies),
          Departments      |-> JoinSorted(departments),
          Positions        |-> JoinSorted(positions),
          Date_employment  |-> isoformat(earliest),
          Phones           |-> user.phones ]

-----------------------------------------------------------------------------
(* app/db/sync_1c.py: pure parts *)

OrEmpty(v) == IF v = None THEN "" ELSE v

pivot_data_changed(existing, new) ==
    \/ OrEmpty(existing.FIO) # OrEmpty(new.FIO)
    \/ surname_to_str(existing.Previous_surname) # surname_to_str(new.Previous_surname)
    \/ values_to_set(existing.Companies) # values_to_set(new.Companies)
    \/ values_to_set(existing.Departments) # values_to_set(new.Departments)
    \/ values_to_set(existing.Positions) # values_to_set(new.Positions)
    \/ phones_to_set(existing.Phones) # phones_to_set(new.Phones)

\* {user.get('Name'): user for user in pivot_users if user.get('Name')}:
\* of several rows with one Name the last one stays
get_pivot_table_users(rows) ==
    LET names == { rows[i].Name : i \in DOMAIN rows } \ {None}
        Last(n) == CHOOSE i \in DOMAIN rows :
                       /\ rows[i].Name = n
                       /\ \A j \in DOMAIN rows : rows[j].Name = n => j <= i
    IN  [ n \in names |-> rows[Last(n)] ]

archived_data_keeps_phones(user_data) ==
    [ Name             |-> user_data.Name,
      Date_employment  |-> user_data.Date_employment,
      FIO              |-> None,
      Previous_surname |-> <<>>,
      Company_segment  |-> None,
      Companies        |-> <<>>,
      Departments      |-> <<>>,
      Positions        |-> <<>>,
      Phones           |-> user_data.Phones,
      Is_archived      |-> TRUE ]

\* archived_data of archive_pivot
archived_data(user_data) ==
    [ Name             |-> user_data.Name,
      Date_employment  |-> user_data.Date_employment,
      FIO              |-> None,
      Previous_surname |-> <<>>,
      Company_segment  |-> None,
      Companies        |-> <<>>,
      Departments      |-> <<>>,
      Positions        |-> <<>>,
      Phones           |-> <<>>,
      Is_archived      |-> TRUE ]

-----------------------------------------------------------------------------
(* The inputs: the clock and the aggregated source *)

SNILS == {"111-222-333 01", "444-555-666 02"}

Today0 == days_from_civil(2025, 9, 1)

OldHire == Today0 - 800
\* hired 91 days ago: less than three months, and the 3_months poll is due today
RecentHire == Today0 - 91

HireDates == {NoDate, OldHire, RecentHire}

Fio(snils) == IF snils = "111-222-333 01" THEN "Ivanov Ivan" ELSE "Petrova Anna"

Mobile(snils) ==
    IF snils = "111-222-333 01"
    THEN PhoneText(TRUE, <<7, 9, 1, 1, 1, 1, 1, 1, 1, 1, 1>>)
    ELSE PhoneText(TRUE, <<7, 9, 2, 1, 2, 2, 2, 2, 2, 2, 2>>)

Landline == PhoneText(FALSE, <<9, 1, 1, 2, 2, 3, 3>>)

\* what aggregate_1c_users returns for an identity with one source row (v = 1),
\* with two source rows, a previous surname and a landline (v = 2), or with
\* one source row whose only phone is a landline (v = 3)
AggregatedUser(snils, v, d) ==
    LET first  == [company |-> "Mavis-Stroy", department |-> "IT", position |-> "Engineer",
                   date_employment |-> d]
        second == [company |-> "Votonya", department |-> "Sales", position |-> "Manager",
                   date_employment |-> IF d = NoDate THEN NoDate ELSE d + 30]
    IN  [ id               |-> snils,
          fio              |-> Fio(snils),
          previous_surname |-> IF v = 2 THEN <<"Sidorova">> ELSE <<>>,
          phones           |-> IF v = 2 THEN <<Mobile(snils), Landline>>
                               ELSE IF v = 3 THEN <<Landline>>
                               ELSE <<Mobile(snils)>>,
          employments      |-> IF v = 2 THEN <<first, second>> ELSE <<first>>,
          date_employment  |-> d ]

\* the second identity is always a recent hire with one source row
SourceUsers(snils) ==
    IF snils = "111-222-333 01"
    THEN { AggregatedUser(snils, v, d) : v \in {1, 2}, d \in HireDates }
            \cup { AggregatedUser(snils, 3, RecentHire) }
    ELSE { AggregatedUser(snils, 1, RecentHire) }

\* every mapping identity -> User the aggregation of a source pull can give
Sources ==
    UNION { { f \in [ids -> UNION { SourceUsers(n) : n \in ids }] :
                \A n \in ids : f[n] \in SourceUsers(n) } : ids \in SUBSET SNILS }

\* the aggregated users that differ in what sync_auth reads: an employee with
\* a mobile phone, a newcomer with a mobile phone and a landline, a newcomer
\* with a landline only
AuthSourceUsers(snils) ==
    IF snils = "111-222-333 01"
    THEN { AggregatedUser(snils, 1, OldHire), AggregatedUser(snils, 2, RecentHire),
           AggregatedUser(snils, 3, RecentHire) }
    ELSE SourceUsers(snils)

\* every mapping identity -> User over AuthSourceUsers
AuthSources ==
    { f \in Sources : \A n \in DOMAIN f : f[n] \in AuthSourceUsers(n) }

-----------------------------------------------------------------------------
(* app/db/sync_1c.py: aggregate_1c_users over the raw rows of one identity *)

\* the rows of one identity aggregated at once, at most
MaxRows == 3

\* a second mobile number, written with a leading 8
Mobile8 == << << [plus |-> FALSE, digits |-> <<8, 9, 3, 1, 3, 3, 3, 3, 3, 3, 3>>] >> >>

\* raw rows of the identity 111-222-333 01: two full rows with different
\* previous surnames, a third employment without previous surname and hire
\* date, a row without FIO, a row without company and with a date that does
\* not parse
RawRows ==
    [ full   |-> [ Name |-> "111-222-333 01", FIO |-> "Ivanov Ivan", Previous_surname |-> "Sidorova",
                   Date_employment |-> <<2025, 6, 2>>, Phone_private |-> Mobile("111-222-333 01"),
                   Company |-> "Mavis-Stroy", Department |-> "IT", Position |-> "Engineer" ],
      second |-> [ Name |-> "111-222-333 01", FIO |-> "Ivanov Ivan", Previous_surname |-> "Kuznetsova",
                   Date_employment |-> <<2023, 6, 24>>, Phone_private |-> Landline \o Mobile8,
                   Company |-> "Votonya", Department |-> "Sales", Position |-> "Manager" ],
      third  |-> [ Name |-> "111-222-333 01", FIO |-> "Ivanov Ivan", Previous_surname |-> "",
                   Date_employment |-> NoDateStr, Phone_private |-> Mobile("111-222-333 01"),
                   Company |-> "Gazprom", Department |-> "", Position |-> "" ],
      no_fio |-> [ Name |-> "111-222-333 01", FIO |-> "", Previous_surname |-> "",
                   Date_employment |-> <<2022, 1, 10>>, Phone_private |-> <<>>,
                   Company |-> "Gazprom", Department |-> "IT", Position |-> "Manager" ],
      no_company |-> [ Name |-> "111-222-333 01", FIO |-> "Ivanov Ivan", Previous_surname |-> "",
                   Date_employment |-> <<2025, 2, 30>>, Phone_private |-> <<>>,
                   Company |-> "", Department |-> "", Position |-> "Engineer" ] ]

\* every list without repetition of the elements of S: what list(S) can give
\* for a set S, whose iteration order is arbitrary
Orderings(S) == { o \in [1 .. Cardinality(S) -> S] : Range(o) = S }

\* the lists of rows a pull can return for the identity
RowLists ==
    UNION { Orderings({ RawRows[k] : k \in ks }) : ks \in { t \in SUBSET DOMAIN RawRows :
                                                            t # {} /\ Cardinality(t) <= MaxRows } }

\* Employment(...) of a row, as the loop of aggregate_1c_users builds it
EmploymentOf(row) ==
    [ company         |-> row.Company,
      department      |-> IF row.Department = "" THEN None ELSE row.Department,
      position        |-> IF row.Position = "" THEN None ELSE row.Position,
      date_employment |-> _parse_date(row.Date_employment) ]

\* a value of the shape of a User that is no user
NotAUser(tag) ==
    [ id |-> tag, fio |-> "", previous_surname |-> <<>>, phones |-> <<>>,
      employments |-> <<>>, date_employment |-> NoDate ]

\* from_1c_data returned None
NoUser == NotAUser(None)

\* User.from_1c_data(row_data): None without FIO, and None when
\* Company(title='') raises inside its try
from_1c_data(row_data) ==
    IF row_data.Name = "" \/ row_data.FIO = "" THEN NoUser
    ELSE IF row_data.Company = "" THEN NoUser
    ELSE [ id               |-> row_data.Name,
           fio              |-> row_data.FIO,
           previous_surname |-> <<>>,
           phones           |-> normalize_phones_string(row_data.Phone_private),
           employments      |-> << EmploymentOf(row_data) >>,
           date_employment  |-> _parse_date(row_data.Date_employment) ]

RECURSIVE EarliestDate(_, _)
EarliestDate(earliest_date, rows) ==
    IF rows = <<>> THEN earliest_date
    ELSE LET row_date == _parse_date(Head(rows).Date_employment)
         IN  EarliestDate(IF row_date # NoDate /\ (earliest_date = NoDate \/ row_date < earliest_date)
                          THEN row_date ELSE earliest_date,
                          Tail(rows))

\* previous_surnames after the loop over rows
PreviousSurnames(rows) == { rows[i].Previous_surname : i \in DOMAIN rows } \ {""}

\* all_phones after the loop over rows
AllPhones(user, rows) ==
    Range(user.phones) \cup UNION { Range(normalize_phones_string(rows[i].Phone_private)) : i \in DOMAIN rows }

\* the identity is left out of the result
Skipped == NotAUser("skipped")

\* aggregate_1c_users ends with an exception
Raised == NotAUser("raised")

\* what aggregate_1c_users does with the rows of one identity: skips it when
\* the first row gives no user, raises when Employment(company=None) is
\* built for a row without company, and otherwise returns the user, the two
\* lists made of sets in an order the caller does not control
aggregate_1c_users(rows, surnames, phones) ==
    LET user == from_1c_data(rows[1])
    IN  IF user = NoUser THEN Skipped
        ELSE IF \E i \in DOMAIN rows : rows[i].Company = "" THEN Raised
        ELSE [ user EXCEPT !.employments      = [ i \in DOMAIN rows |-> EmploymentOf(rows[i]) ],
                           !.previous_surname = surnames,
                           !.date_employment  = EarliestDate(user.date_employment, rows),
                           !.phones           = phones ]

\* every outcome of aggregate_1c_users on the rows
Aggregations(rows) ==
    LET user == from_1c_data(rows[1])
    IN  IF user = NoUser THEN { Skipped }
        ELSE { aggregate_1c_users(rows, surnames, phones) :
                  surnames \in Orderings(PreviousSurnames(rows)),
                  phones \in Orderings(AllPhones(user, rows)) }

\* what aggregate_1c_users returns for an identity with two source rows that
\* carry different previous surnames: list(previous_surnames) in either order
TwoSurnames(snils) ==
    { [ AggregatedUser(snils, 2, OldHire) EXCEPT !.previous_surname = surnames ] :
         surnames \in Orderings({"Sidorova", "Kuznetsova"}) }

\* the aggregated users of the passes that are run twice: an employee with
\* one source row, an employee with two previous surnames, and the newcomer
TwiceSourceUsers(snils) ==
    IF snils = "111-222-333 01"
    THEN { AggregatedUser(snils, 1, OldHire) } \cup TwoSurnames(snils)
    ELSE SourceUsers(snils)

\* every mapping identity -> User over TwiceSourceUsers
TwiceSources ==
    UNION { { f \in [ids -> UNION { TwiceSourceUsers(n) : n \in ids }] :
                \A n \in ids : f[n] \in TwiceSourceUsers(n) } : ids \in SUBSET SNILS }

\* two aggregations of the same source rows: they differ at most in the
\* order of the list made of the set of previous surnames
SameRows(a, b) ==
    /\ DOMAIN a = DOMAIN b
    /\ \A n \in DOMAIN a :
          /\ [ a[n] EXCEPT !.previous_surname = <<>> ] = [ b[n] EXCEPT !.previous_surname = <<>> ]
          /\ Range(a[n].previous_surname) = Range(b[n].previous_surname)

-----------------------------------------------------------------------------
(* The schedulers: app/db/sync_1c.py run_daily_task and
   app/services/pulse_sender.py start_pulse_sender_scheduler. A time is a
   number of seconds of Moscow time since the midnight before the process
   started. *)

DAY == 24 * 3600

\* time(12, 00), time(16, 0)
sync_times == {12 * 3600, 16 * 3600}

\* time(14, 0)
roles_check_time == {14 * 3600}

\* time(14, 16)
sending_time == 14 * 3600 + 16 * 60

\* await asyncio.sleep(5) after the task
COOLDOWN == 5

\* await asyncio.sleep(60) after the pulses are sent
PAUSE == 60

\* the days the schedulers are followed for
MaxDays == 2

Horizon == MaxDays * DAY

\* a sleep ends within MaxJitter seconds of the instant asked for, on the
\* wall clock: less than half the cooldown
MaxJitter == (COOLDOWN - 1) \div 2

\* the earliest, the exact and the latest end of a sleep
Jitter == {0 - MaxJitter, 0, MaxJitter}

\* how long an invocation of a task takes: no time, five hours, more than a
\* day
Durations == {0, 5 * 3600, 25 * 3600}

\* when the process starts, on its first day
Boots == {0, 12 * 3600 - 1, 12 * 3600, 14 * 3600 + 16 * 60, 16 * 3600 + 1, DAY - 1}

\* the two run_daily_task of start_sync_scheduler
Jobs == {"sync", "roles"}

AllJobs == Jobs \cup {"pulse"}

times(job) == IF job = "sync" THEN sync_times ELSE roles_check_time

Min(S) == CHOOSE x \in S : \A y \in S : x <= y

\* datetime.combine of the date of now and t
combine(now, t) == (now \div DAY) * DAY + t

\* the nearest run of run_daily_task: today's time, or tomorrow's when
\* today's is not after now
next_run(now, ts) ==
    Min({ combine(now, t) + (IF combine(now, t) <= now THEN DAY ELSE 0) : t \in ts })

\* next_run of _wait_until: tomorrow's only when today's is before now
wait_until(now, target_time) ==
    IF combine(now, target_time) < now THEN combine(now, target_time) + DAY
    ELSE combine(now, target_time)

\* when asyncio.sleep(delay) begun at now ends, the timer off by e
Wake(now, delay, e) == IF delay + e < 0 THEN now ELSE now + delay + e

-----------------------------------------------------------------------------
(* State *)

\* {}
EmptyDict == [ n \in {} |-> n ]

NoStep ==
    [ snils |-> None, kind |-> "none", existed |-> FALSE, had_date |-> FALSE,
      date_was_added_now |-> FALSE, pulse |-> FALSE, hire |-> NoDate,
      retried |-> FALSE ]

NoLast == [ poll_type |-> None, result |-> "none", attempts |-> 0 ]

\* all_needed, results and ret are kept for the properties: what
\* _get_needed_polls gave, how each _create_single_task ended, and what
\* create_tasks returned ("none" while it runs)

NoPulse ==
    [ user_data       |-> [Name |-> None, FIO |-> None, Department |-> None,
                           Date_employment |-> NoDateStr],
      employment_date |-> NoDate,
      needed          |-> <<>>,
      success_count   |-> 0,
      attempt         |-> 0,
      last            |-> NoLast,
      all_needed      |-> <<>>,
      results         |-> <<>>,
      ret             |-> "none",
      caller          |-> "users" ]

\* the counters of sync_pivot; handled and archive_tried are kept for the
\* properties: the identities each of its two loops has reached
NoReport ==
    [ created |-> 0, updated |-> 0, unchanged |-> 0, archived |-> 0, errors |-> 0,
      handled |-> {}, archive_tried |-> {} ]

\* sync_auth is not running
NoAuthPass ==
    [ pivot_users |-> EmptyDict,        \* the argument of sync_auth
      active |-> {}, archived |-> {},   \* active_pivot_users, archived_pivot_users
      auth_users |-> EmptyDict,         \* first get_auth()
      auth_users_updated |-> EmptyDict, \* second get_auth()
      todo |-> {},                      \* identities the running loop has not reached
      reads_ok |-> TRUE,                \* no read of this pass has failed
      writes_ok |-> TRUE,               \* no write of this pass has failed
      changed |-> {} ]                  \* rows change_user_role wrote since the first get_auth()

\* check_and_update_roles is not running; had is kept for the properties:
\* the rows that had the role newcomer when the run began
NoRoleCheck ==
    [ newcomer_users |-> <<>>,   \* _get_newcomer_users()
      users_pivot    |-> <<>>,   \* _get_users()
      next           |-> 1,      \* position of the loop in newcomer_users
      had            |-> {},
      calls_ok       |-> TRUE ]  \* no store call of the run has failed

\* send_daily_pulses is not running; sends is kept for the properties: how
\* many times _send_single_pulse was called for each row of the task table
NoSending ==
    [ tasks_to_send |-> <<>>,   \* _get_tasks_for_today()
      next          |-> 1,      \* position of the loop in tasks_to_send
      sends         |-> <<>> ]

\* get_all_1c_users has not been called; table and complete are kept for the
\* properties: the users of the whole 1C table at the time of the call, and
\* whether every fetch_table of the call succeeded
NoFetch == [ table |-> EmptyDict, complete |-> TRUE ]

\* get_user_access_and_role has not been called; revoked is kept for the
\* properties: at the time of the call sync_auth had deleted the row that the
\* last registration of the user wrote, and no row carried the messenger id
NoAccess == [ user_id |-> 0, has_access |-> FALSE, role |-> None, revoked |-> FALSE ]

\* the coroutine has not been started
NoLoop ==
    [ pc       |-> "none",   \* none, loop, sleeping, running, cooldown, parked, dead
      wake     |-> 0,        \* when the await it is in ends
      armed    |-> NoDate,   \* next_run of the sleep it is in or has come out of
      fired    |-> {},       \* every next_run for which the task was started
      inflight |-> 0,        \* invocations of the task that have not ended
      outcome  |-> "none",   \* how the last invocation ended: returned or raised
      due      |-> NoDate ]  \* the nearest scheduled time when the sleep after it ends

NoDaily == [ job \in AllJobs |-> NoLoop ]

\* no pass has ended yet, or the last one had a failed store call
NoTwice ==
    [ prev    |-> {},       \* {source of the last pass}, {} unless that pass was clean
      same    |-> FALSE,    \* the running pass has the source of a clean pass before it
      faults0 |-> 0 ]       \* faults when the running pass began

Init ==
    /\ today = Today0
    /\ pivot = <<>>
    /\ tasks = <<>>
    /\ pc = "idle"
    /\ users_from_1c = EmptyDict
    /\ users_in_pivot = EmptyDict
    /\ todo = {}
    /\ to_archive = {}
    /\ step = NoStep
    /\ write_failed = FALSE
    /\ pulse = NoPulse
    /\ report = NoReport
    /\ auth = EmptyDict
    /\ sa = NoAuthPass
    /\ faults = 0
    /\ pending = {}
    /\ twice = NoTwice
    /\ now_msk = 0
    /\ daily = NoDaily
    /\ rc = NoRoleCheck
    /\ override = EmptyDict
    /\ sending = NoSending
    /\ fetched = NoFetch
    /\ auth_cache = EmptyDict
    /\ registered = EmptyDict
    /\ access = NoAccess
    /\ arg = 0
    /\ res = <<>>

-----------------------------------------------------------------------------
(* process_1c_sync / sync_pivot *)

\* the environment: a call of the store may fail while fewer than MaxFaults
\* calls have failed
Outcomes == IF faults < MaxFaults THEN BOOLEAN ELSE {TRUE}

\* the call has succeeded (ok) or failed
Fault(ok) == faults' = faults + (IF ok THEN 0 ELSE 1)

\* process_1c_sync up to the first loop of sync_pivot: the aggregated source
\* is any source, the pivot table is read (a failed or empty read gives {})
StartSyncFrom(sources) ==
    /\ pc = "idle"
    /\ \E source \in sources, read_ok \in Outcomes :
        /\ Fault(read_ok)
        /\ users_from_1c' = source
        /\ users_in_pivot' = IF read_ok THEN get_pivot_table_users(pivot) ELSE EmptyDict
        /\ todo' = DOMAIN source
        /\ pending' = pending \cap DOMAIN source
    /\ pc' = "users"
    /\ to_archive' = {}
    /\ step' = NoStep
    /\ write_failed' = FALSE
    /\ pulse' = NoPulse
    /\ report' = NoReport
    /\ UNCHANGED <<today, auth, sa, pivot, tasks, twice, now_msk, daily, rc, override, sending, fetched, auth_cache, registered, access, arg, res>>

\* process_1c_sync started on any aggregated source
StartSync == StartSyncFrom(Sources)

\* user.date_employment >= datetime.now().date() - relativedelta(years=1)
NotOlderThanYear(d) == d >= minus_one_year(today)

\* user_data.get(key)
Get(user_data, key) == IF key \in DOMAIN user_data THEN user_data[key] ELSE None

\* create_tasks up to its loop: the frame it leaves. It has returned False
\* when the hire date is missing or does not parse, True when no poll is needed
create_tasks(user_data, caller) ==
    LET employment_date == _parse_date(Get(user_data, "Date_employment"))
        needed_polls    == _get_needed_polls(employment_date, today)
        frame           == [ NoPulse EXCEPT !.user_data = user_data, !.caller = caller ]
    IN  IF employment_date = NoDate THEN [ frame EXCEPT !.ret = "False" ]
        ELSE IF needed_polls = <<>>
             THEN [ frame EXCEPT !.employment_date = employment_date, !.ret = "True" ]
        ELSE [ frame EXCEPT !.employment_date = employment_date,
                            !.needed = needed_polls,
                            !.all_needed = needed_polls ]

\* create_pulse up to the loop of create_tasks: the frame it leaves, or NoPulse
\* when it returns before calling create_tasks
create_pulse(user) ==
    IF user.date_employment = NoDate THEN NoPulse
    ELSE IF user.date_employment <= minus_one_year(today) THEN NoPulse
    ELSE create_tasks([ Name            |-> user.id,
                        FIO             |-> user.fio,
                        Department      |-> IF user.employments # <<>>
                                            THEN user.employments[1].department
                                            ELSE None,
                        Date_employment |-> isoformat(user.date_employment) ],
                      "users")

UpdateDataFromSource(user, existing_data) ==
    LET new_data == to_pivot_table_format(user)
    IN  IF user.date_employment # NoDate
        THEN <<[new_data EXCEPT !.Date_employment = isoformat(user.date_employment)],
               existing_data.Date_employment = NoDateStr>>
        ELSE <<[new_data EXCEPT !.Date_employment = existing_data.Date_employment], FALSE>>

\* new_data as the update branch of sync_pivot completes it
\* <<new_data, date_was_added_now>>
UpdateData(user, existing_data) ==
    LET new_data      == to_pivot_table_format(user)
        existing_date == existing_data.Date_employment
    IN  IF existing_date # NoDateStr
        THEN <<[new_data EXCEPT !.Date_employment = existing_date], FALSE>>
        ELSE IF user.date_employment # NoDate
             THEN <<[new_data EXCEPT !.Date_employment = isoformat(user.date_employment)], TRUE>>
             ELSE <<[new_data EXCEPT !.Date_employment = NoDateStr], FALSE>>

NeedsUpdateDateOnly(existing_data, new_data, date_was_added_now) == date_was_added_now

\* pivot_data_changed(existing_data, new_data) or date_was_added_now
NeedsUpdate(existing_data, new_data, date_was_added_now) ==
    pivot_data_changed(existing_data, new_data) \/ date_was_added_now

PulseAfterUpdateAnyDate(user, date_was_added_now) ==
    user.date_employment # NoDate /\ NotOlderThanYear(user.date_employment)

PulseAfterUpdate(user, date_was_added_now) ==
    date_was_added_now /\ user.date_employment # NoDate /\ NotOlderThanYear(user.date_employment)

PulseAfterCreate(user) ==
    user.date_employment # NoDate /\ NotOlderThanYear(user.date_employment)

UpdatePayloadKeepsFlag(new_data) == new_data

\* new_data['Is_archived'] = False
UpdatePayload(new_data) ==
    [ f \in DOMAIN new_data \cup {"Is_archived"} |->
        IF f = "Is_archived" THEN FALSE ELSE new_data[f] ]

\* the row the store holds after update_record(record_id, data): the columns
\* named by data are overwritten, the others stay
Patched(row, data) ==
    [ f \in DOMAIN row |-> IF f \in DOMAIN data THEN data[f] ELSE row[f] ]

\* the row the store holds after create_record(data): the store numbers it
\* (the row id read back as '_id'), and the checkbox column Is_archived, which
\* data does not name, is unchecked
Inserted(rows, data) ==
    [ f \in DOMAIN data \cup {"_id", "Is_archived"} |->
        IF f = "_id" THEN Len(rows) + 1
        ELSE IF f = "Is_archived" THEN FALSE
        ELSE data[f] ]

\* where the sync job is after an iteration that left the frame p
AfterIteration(p) == IF p.needed # <<>> THEN "tasks" ELSE "users"

AbortAfterFailure(rest) == {}

\* what a loop of sync_pivot still has to do after an iteration that failed:
\* the failure was logged inside the loop body, the loop goes on
AfterFailure(rest) == rest

\* the counters after the iteration of snils has incremented counter
Counted(counter, snils) ==
    [ report EXCEPT ![counter] = @ + 1, !.handled = @ \cup {snils} ]

\* the counters after an iteration in which create_pivot or update_pivot
\* returned False: no counter is incremented
FailedWrite(snils) == [ report EXCEPT !.handled = @ \cup {snils} ]

\* one iteration of the first loop of sync_pivot, up to the first await of
\* create_tasks. For an identity found in the pivot, comparing with the stored
\* row may raise when the row is malformed; the loop body catches it
SyncUser(snils) ==
    /\ pc = "users"
    /\ snils \in todo
    /\ LET user == users_from_1c[snils] IN
       IF snils \in DOMAIN users_in_pivot
       THEN LET existing_data == users_in_pivot[snils]
                upd      == UpdateData(user, existing_data)
                new_data == upd[1]
                added    == upd[2]
                info     == [ NoStep EXCEPT !.snils = snils, !.existed = TRUE,
                                            !.had_date = existing_data.Date_employment # NoDateStr,
                                            !.date_was_added_now = added,
                                            !.hire = user.date_employment,
                                            !.retried = snils \in pending ]
            IN  \/ /\ faults < MaxFaults
                   /\ faults' = faults + 1
                   /\ step' = [info EXCEPT !.kind = "error"]
                   /\ report' = Counted("errors", snils)
                   /\ todo' = AfterFailure(todo \ {snils})
                   /\ pulse' = NoPulse
                   /\ UNCHANGED <<pivot, pc, write_failed>>
                \/ IF NeedsUpdate(existing_data, new_data, added)
                   THEN \E success \in Outcomes :
                          Fault(success) /\
                          IF success
                          THEN LET p == IF PulseAfterUpdate(user, added)
                                        THEN create_pulse(user) ELSE NoPulse
                               IN  /\ pivot' = [pivot EXCEPT ![existing_data._id] =
                                                   Patched(pivot[existing_data._id], UpdatePayload(new_data))]
                                   /\ step' = [info EXCEPT !.kind = "updated",
                                                           !.pulse = PulseAfterUpdate(user, added)]
                                   /\ report' = Counted("updated", snils)
                                   /\ todo' = todo \ {snils}
                                   /\ pulse' = p
                                   /\ pc' = AfterIteration(p)
                                   /\ UNCHANGED write_failed
                          ELSE /\ step' = [info EXCEPT !.kind = "update_failed"]
                               /\ report' = FailedWrite(snils)
                               /\ todo' = AfterFailure(todo \ {snils})
                               /\ write_failed' = TRUE
                               /\ pulse' = NoPulse
                               /\ UNCHANGED <<pivot, pc>>
                   ELSE /\ step' = [info EXCEPT !.kind = "unchanged"]
                        /\ UNCHANGED faults
                        /\ report' = Counted("unchanged", snils)
                        /\ todo' = todo \ {snils}
                        /\ pulse' = NoPulse
                        /\ UNCHANGED <<pivot, pc, write_failed>>
       ELSE LET new_data == to_pivot_table_format(user)
                info     == [ NoStep EXCEPT !.snils = snils, !.hire = user.date_employment,
                                            !.retried = snils \in pending ]
            IN  \E success \in Outcomes :
                   Fault(success) /\
                   IF success /\ Len(pivot) < MaxPivot
                   THEN LET p == IF PulseAfterCreate(user) THEN create_pulse(user) ELSE NoPulse
                        IN  /\ pivot' = Append(pivot, Inserted(pivot, new_data))
                            /\ step' = [info EXCEPT !.kind = "created",
                                                    !.pulse = PulseAfterCreate(user)]
                            /\ report' = Counted("created", snils)
                            /\ todo' = todo \ {snils}
                            /\ pulse' = p
                            /\ pc' = AfterIteration(p)
                            /\ UNCHANGED write_failed
                   ELSE /\ step' = [info EXCEPT !.kind = "create_failed"]
                        /\ report' = FailedWrite(snils)
                        /\ todo' = AfterFailure(todo \ {snils})
                        /\ write_failed' = TRUE
                        /\ pulse' = NoPulse
                        /\ UNCHANGED <<pivot, pc>>
    /\ pending' = IF step'.kind \in {"created", "updated", "unchanged"} THEN pending \ {snils}
                  ELSE IF step'.kind \in {"create_failed", "update_failed"} THEN pending \cup {snils}
                  ELSE pending
    /\ UNCHANGED <<today, auth, sa, tasks, users_from_1c, users_in_pivot, to_archive, twice, now_msk, daily, rc, override, sending, fetched, auth_cache, registered, access, arg, res>>

\* users_to_archive, computed when the first loop is over
users_to_archive ==
    { snils \in DOMAIN users_in_pivot :
        snils \notin DOMAIN users_from_1c /\ ~ users_in_pivot[snils].Is_archived }

BeginArchive ==
    /\ pc = "users"
    /\ todo = {}
    /\ to_archive' = users_to_archive
    /\ pc' = "archive"
    /\ UNCHANGED <<today, faults, auth, sa, report, pivot, tasks, users_from_1c, users_in_pivot, todo, step,
                   write_failed, pulse, pending, twice, now_msk, daily, rc, override, sending, fetched, auth_cache, registered, access, arg, res>>

\* one iteration of the second loop of sync_pivot
ArchiveUser(snils) ==
    /\ pc = "archive"
    /\ snils \in to_archive
    /\ \E success \in Outcomes :
         Fault(success) /\
         IF success
         THEN /\ pivot' = [pivot EXCEPT ![users_in_pivot[snils]._id] =
                              Patched(pivot[users_in_pivot[snils]._id],
                                      archived_data(users_in_pivot[snils]))]
              /\ report' = [ report EXCEPT !.archived = @ + 1,
                                           !.archive_tried = @ \cup {snils} ]
              /\ to_archive' = to_archive \ {snils}
              /\ UNCHANGED write_failed
         ELSE /\ write_failed' = TRUE
              /\ report' = [ report EXCEPT !.archive_tried = @ \cup {snils} ]
              /\ to_archive' = AfterFailure(to_archive \ {snils})
              /\ UNCHANGED pivot
    /\ UNCHANGED <<today, auth, sa, tasks, pc, users_from_1c, users_in_pivot, todo, step, pulse, pending, twice, now_msk, daily, rc, override, sending, fetched, auth_cache, registered, access, arg, res>>

\* sync_pivot returns
EndSyncPivot ==
    /\ pc = "archive"
    /\ to_archive = {}
    /\ pc' = "synced"
    /\ UNCHANGED <<today, faults, auth, sa, report, pivot, tasks, users_from_1c, users_in_pivot, todo, to_archive,
                   step, write_failed, pulse, pending, twice, now_msk, daily, rc, override, sending, fetched, auth_cache, registered, access, arg, res>>

\* process_1c_sync returns
EndSync ==
    /\ pc = "synced"
    /\ pc' = "idle"
    /\ users_from_1c' = EmptyDict
    /\ users_in_pivot' = EmptyDict
    /\ step' = NoStep
    /\ write_failed' = FALSE
    /\ pulse' = NoPulse
    /\ report' = NoReport
    /\ UNCHANGED <<today, faults, auth, sa, pivot, tasks, todo, to_archive, pending, twice, now_msk, daily, rc, override, sending, fetched, auth_cache, registered, access, arg, res>>

-----------------------------------------------------------------------------
(* PulseTaskCreator.create_tasks, called by create_pulse *)

\* the identity _create_single_task reads from user_data
TaskSnils(user_data) == Get(user_data, "SNILS")

\* f"{snils}"
FormatValue(v) == IF v = None THEN "None" ELSE v

\* the rows the store returns for (SNILS,eq,<snils>)~and(Type,eq,<poll_type>):
\* a row without SNILS holds null, which is not equal to any filter text
MatchingTasks(snils, poll_type) ==
    { i \in DOMAIN tasks :
        /\ tasks[i].SNILS # None
        /\ tasks[i].SNILS = FormatValue(snils)
        /\ tasks[i].Type = FormatValue(poll_type) }

\* task_exists: an error of the read is logged and answered with False
task_exists(snils, poll_type, read_ok) ==
    read_ok /\ MatchingTasks(snils, poll_type) # {}

\* task_data of _create_single_task; created_for is not a column: it records
\* the employee create_pulse was called for
TaskData(user_data, employment_date, poll_type) ==
    LET adj == _calculate_and_adjust_poll_date(employment_date, poll_type)
    IN  [ FIO             |-> Get(user_data, "FIO"),
          SNILS           |-> TaskSnils(user_data),
          Department      |-> Get(user_data, "Department"),
          Data_employment |-> isoformat(employment_date),
          Data_poll       |-> isoformat(adj[1]),
          Type            |-> poll_type,
          Status          |-> "waiting",
          Date_adjusted   |-> adj[2],
          created_for     |-> Get(user_data, "Name") ]

max_retries == 3

\* pulse_creator.py uses asyncio.sleep and does not import asyncio: the call
\* raises NameError
asyncio_is_imported == FALSE

create_tasks_result_always_true(success_count) == "True"

\* return success_count > 0
create_tasks_result(success_count) == IF success_count > 0 THEN "True" ELSE "False"

\* the frame after _create_single_task has ended with the given result
NextFrame(result, counted) ==
    LET count == pulse.success_count + (IF counted THEN 1 ELSE 0)
    IN  [ pulse EXCEPT !.needed = Tail(pulse.needed),
                       !.success_count = count,
                       !.attempt = 0,
                       !.last = [ poll_type |-> Head(pulse.needed),
                                  result    |-> result,
                                  attempts  |-> pulse.attempt ],
                       !.results = Append(pulse.results,
                                          [ poll_type |-> Head(pulse.needed),
                                            result    |-> result ]),
                       !.ret = IF Tail(pulse.needed) = <<>>
                               THEN create_tasks_result(count) ELSE "none" ]

NextPollStopsOnFailure(result, counted) ==
    /\ pulse' = IF counted THEN NextFrame(result, counted)
                ELSE [ NextFrame(result, counted) EXCEPT
                          !.needed = <<>>,
                          !.ret = create_tasks_result(pulse.success_count) ]
    /\ pc' = IF Tail(pulse.needed) = <<>> \/ ~ counted THEN pulse.caller ELSE "tasks"

\* _create_single_task has ended with the given result, by return or by an
\* exception create_tasks catches: create_tasks goes on with the next needed
\* poll, or returns to its caller after the last one
NextPoll(result, counted) ==
    /\ pulse' = NextFrame(result, counted)
    /\ pc' = IF Tail(pulse.needed) = <<>> THEN pulse.caller ELSE "tasks"

\* _create_single_task up to the write: the existence check
CheckTask ==
    /\ pc = "tasks"
    /\ \E read_ok \in Outcomes :
         Fault(read_ok) /\
         IF task_exists(TaskSnils(pulse.user_data), Head(pulse.needed), read_ok)
         THEN NextPoll("exists", TRUE)
         ELSE /\ pulse' = [pulse EXCEPT !.attempt = 1]
              /\ pc' = "write"
    /\ UNCHANGED <<today, auth, sa, report, pivot, tasks, users_from_1c, users_in_pivot, todo, to_archive,
                   step, write_failed, pending, twice, now_msk, daily, rc, override, sending, fetched, auth_cache, registered, access, arg, res>>

\* one attempt of the retry loop of _create_single_task: create_record answers
\* with the created rows, with an empty answer, or raises
WriteTask ==
    /\ pc = "write"
    /\ \E outcome \in (IF faults < MaxFaults THEN {"created", "empty", "raise"}
                        ELSE {"created"}) :
         Fault(outcome = "created") /\
         IF outcome = "created" /\ Len(tasks) < MaxTasks
         THEN /\ tasks' = Append(tasks, TaskData(pulse.user_data, pulse.employment_date,
                                                 Head(pulse.needed)))
              /\ NextPoll("created", TRUE)
         ELSE IF outcome = "empty"
         THEN /\ NextPoll("empty", FALSE)
              /\ UNCHANGED tasks
         ELSE /\ UNCHANGED tasks
              /\ IF pulse.attempt < max_retries
                 THEN IF asyncio_is_imported
                      THEN /\ pulse' = [pulse EXCEPT !.attempt = pulse.attempt + 1]
                           /\ UNCHANGED pc
                      ELSE NextPoll("name_error", FALSE)
                 ELSE NextPoll("gave_up", FALSE)
    /\ UNCHANGED <<today, auth, sa, report, pivot, users_from_1c, users_in_pivot, todo, to_archive,
                   step, write_failed, pending, twice, now_msk, daily, rc, override, sending, fetched, auth_cache, registered, access, arg, res>>

Next ==
    \/ StartSync
    \/ \E snils \in SNILS : SyncUser(snils)
    \/ CheckTask
    \/ WriteTask
    \/ BeginArchive
    \/ \E snils \in SNILS : ArchiveUser(snils)
    \/ EndSyncPivot
    \/ EndSync

Spec == Init /\ [][Next]_vars

\* the sources of the passes that follow the hiring of the second identity:
\* the identity is in the pull or not
RetrySources == { f \in Sources : DOMAIN f \subseteq {"444-555-666 02"} }

\* process_1c_sync started on one of RetrySources
StartSyncRetry == StartSyncFrom(RetrySources)

NextRetry ==
    \/ StartSyncRetry
    \/ \E snils \in SNILS : SyncUser(snils)
    \/ CheckTask
    \/ WriteTask
    \/ BeginArchive
    \/ \E snils \in SNILS : ArchiveUser(snils)
    \/ EndSyncPivot
    \/ EndSync

\* the sync passes follow one another day after day and every await of a
\* pass ends
FairRetry == Init /\ [][NextRetry]_vars /\ WF_vars(NextRetry)

-----------------------------------------------------------------------------
(* sync_auth and the rest of process_1c_sync *)

EMPLOYEE == "employee"
NEWCOMER == "newcomer"

role_after_or_on(date_employment_str, now) ==
    LET date_employment == IF date_employment_str = NoDateStr THEN NoDate
                           ELSE strptime(date_employment_str)
    IN  IF date_employment # NoDate /\ date_employment >= minus_three_months(now)
        THEN NEWCOMER ELSE EMPLOYEE

\* the role sync_auth computes from the Date_employment of a pivot record
role_of(date_employment_str, now) ==
    LET date_employment == IF date_employment_str = NoDateStr THEN NoDate
                           ELSE strptime(date_employment_str)
    IN  IF date_employment # NoDate /\ date_employment > minus_three_months(now)
        THEN NEWCOMER ELSE EMPLOYEE

\* the Phones text sync_auth reads from a pivot row: the stored phones
\* separated by commas (None for no phones)
RECURSIVE phones_raw(_)
phones_raw(phones) ==
    IF phones = <<>> THEN <<>> ELSE Head(phones) \o phones_raw(Tail(phones))

is_any_phone(phone) == TRUE

\* phone.startswith('+7') and len(re.sub(r'\D', '', phone)) == 11
is_mobile(phone) ==
    /\ phone # <<>>
    /\ Head(phone) # <<>>
    /\ Head(Head(phone)).plus
    /\ Head(Head(phone)).digits # <<>>
    /\ Head(Head(phone)).digits[1] = 7
    /\ Len(DigitsOf(phones_raw(phone))) = 11

mobile_phones(pivot_user) ==
    Range(SelectSeq(normalize_phones_string(phones_raw(pivot_user.Phones)), is_mobile))

\* the partition of sync_auth: a record is archived only when Is_archived is True
is_archived_record(user_data) ==
    "Is_archived" \in DOMAIN user_data /\ user_data.Is_archived = TRUE

\* a row of the authorization table as get_all returns it
AuthRow(id) ==
    [ f \in DOMAIN auth[id] \cup {"_id"} |-> IF f = "_id" THEN id ELSE auth[id][f] ]

\* get_auth(): rows grouped by Name; {} for an empty table and for a failed read
get_auth(read_ok) ==
    IF ~ read_ok THEN EmptyDict
    ELSE [ n \in { auth[i].Name : i \in DOMAIN auth } \ {None} |->
             { AuthRow(i) : i \in { j \in DOMAIN auth : auth[j].Name = n } } ]

auth_record(snils, fio, phone, role) ==
    [ Name |-> snils, FIO |-> fio, Phone |-> phone, Role |-> role, ID_messenger |-> "" ]

\* the table after create_record of each of the records, one at a time
RECURSIVE CreateAll(_, _)
CreateAll(table, records) ==
    IF records = {} THEN table
    ELSE LET r  == CHOOSE x \in records : TRUE
             id == CHOOSE i \in 1 .. (Cardinality(DOMAIN table) + 1) : i \notin DOMAIN table
         IN  CreateAll([ i \in DOMAIN table \cup {id} |-> IF i = id THEN r ELSE table[i] ],
                       records \ {r})

\* the table after update_auth(record['_id'], {'FIO': fio, 'Role': role}) of
\* each of the rows
UpdateAll(table, ids, fio, role) ==
    [ i \in DOMAIN table |->
        IF i \in ids THEN [ table[i] EXCEPT !.FIO = fio, !.Role = role ] ELSE table[i] ]

\* the table after delete_auth of each of the rows
DeleteAll(table, ids) == [ i \in DOMAIN table \ ids |-> table[i] ]

StaleSnapshot(read_ok) == users_in_pivot

\* updated_users_in_pivot: the pivot table read again after sync_pivot
UpdatedSnapshot(read_ok) ==
    IF read_ok THEN get_pivot_table_users(pivot) ELSE EmptyDict

\* process_1c_sync after sync_pivot: the pivot table is read again, sync_auth
\* partitions the records and reads the authorization table
StartAuth ==
    /\ pc = "synced"
    /\ \E pivot_ok \in Outcomes, auth_ok \in Outcomes :
         /\ (pivot_ok \/ auth_ok \/ faults + 2 <= MaxFaults)
         /\ faults' = faults + (IF pivot_ok THEN 0 ELSE 1) + (IF auth_ok THEN 0 ELSE 1)
         /\ LET pivot_users == UpdatedSnapshot(pivot_ok)
             active      == { n \in DOMAIN pivot_users : ~ is_archived_record(pivot_users[n]) }
            IN  sa' = [ NoAuthPass EXCEPT
                       !.pivot_users = pivot_users,
                       !.active      = active,
                       !.archived    = DOMAIN pivot_users \ active,
                       !.auth_users  = get_auth(auth_ok),
                       !.todo        = active,
                       !.reads_ok    = pivot_ok /\ auth_ok ]
    /\ pc' = "auth"
    /\ step' = NoStep
    /\ pulse' = NoPulse
    /\ report' = NoReport
    /\ UNCHANGED <<today, pivot, tasks, auth, users_from_1c, users_in_pivot, todo, to_archive,
                   write_failed, pending, twice, now_msk, daily, rc, override, sending, fetched, auth_cache, registered, access, arg, res>>

\* how many of the creates the full table rejects
Rejected(new_phones) ==
    IF Cardinality(DOMAIN auth) + Cardinality(new_phones) > MaxAuth
    THEN Cardinality(DOMAIN auth) + Cardinality(new_phones) - MaxAuth ELSE 0

\* the same rows read from the table at the time of the iteration
existing_records_reread(snils) ==
    IF snils \in DOMAIN get_auth(TRUE) THEN get_auth(TRUE)[snils] ELSE {}

\* existing_records = auth_users[snils]: the rows of the identity as the
\* first get_auth() of the pass returned them
existing_records(snils) ==
    IF snils \in DOMAIN sa.auth_users THEN sa.auth_users[snils] ELSE {}

\* one iteration of the loop of sync_auth over the active records: every
\* create_auth and update_auth of it may fail
AuthUser(snils) ==
    /\ pc = "auth"
    /\ snils \in sa.todo
    /\ LET pivot_user == sa.pivot_users[snils]
           role       == role_of(pivot_user.Date_employment, today)
           fio        == pivot_user.FIO
           mobiles    == mobile_phones(pivot_user)
           existing   == existing_records(snils)
           to_update  == { r._id : r \in { x \in existing : x.FIO # fio \/ x.Role # role } }
           new_phones == IF snils \in DOMAIN sa.auth_users
                         THEN { ph \in mobiles : ph \notin { r.Phone : r \in existing } }
                         ELSE mobiles
       IN  IF mobiles = {}
           THEN /\ sa' = [ sa EXCEPT !.todo = @ \ {snils} ]
                /\ UNCHANGED <<auth, faults>>
           ELSE \E updated \in SUBSET to_update, created \in SUBSET new_phones :
                  /\ Cardinality(DOMAIN auth) + Cardinality(created) <= MaxAuth
                  /\ updated \subseteq DOMAIN auth
                  /\ faults' = faults + Cardinality(to_update \ updated)
                                      + Cardinality(new_phones \ created)
                                      - Rejected(new_phones)
                  /\ faults' <= MaxFaults
                  /\ Cardinality(new_phones \ created) >= Rejected(new_phones)
                  /\ auth' = CreateAll(UpdateAll(auth, updated, fio, role),
                                       { auth_record(snils, fio, ph, role) : ph \in created })
                  /\ sa' = [ sa EXCEPT !.todo = @ \ {snils},
                                       !.writes_ok = @ /\ updated = to_update
                                                       /\ created = new_phones ]
    /\ UNCHANGED <<today, pivot, tasks, pc, users_from_1c, users_in_pivot, todo, to_archive,
                   step, write_failed, pulse, report, pending, twice, now_msk, daily, rc, override, sending, fetched, auth_cache, registered, access, arg, res>>

\* sync_auth after its first loop: the authorization table is read again
BeginDelete ==
    /\ pc = "auth"
    /\ sa.todo = {}
    /\ \E read_ok \in Outcomes :
         /\ Fault(read_ok)
         /\ LET auth_users_updated == get_auth(read_ok)
            IN  sa' = [ sa EXCEPT !.auth_users_updated = auth_users_updated,
                               !.todo = sa.archived \cap DOMAIN auth_users_updated,
                               !.reads_ok = @ /\ read_ok ]
    /\ pc' = "delete"
    /\ UNCHANGED <<today, pivot, tasks, auth, users_from_1c, users_in_pivot, todo, to_archive,
                   step, write_failed, pulse, report, pending, twice, now_msk, daily, rc, override, sending, fetched, auth_cache, registered, access, arg, res>>

\* one iteration of the loop of sync_auth over the archived records that have
\* authorization rows: every delete_auth of it may fail
DeleteUser(snils) ==
    /\ pc = "delete"
    /\ snils \in sa.todo
    /\ LET records_to_delete == { r._id : r \in sa.auth_users_updated[snils] }
       IN  \E deleted \in SUBSET records_to_delete :
             /\ faults' = faults + Cardinality(records_to_delete \ deleted)
             /\ faults' <= MaxFaults
             /\ auth' = DeleteAll(auth, deleted)
             /\ sa' = [ sa EXCEPT !.todo = @ \ {snils},
                                  !.writes_ok = @ /\ deleted = records_to_delete ]
    /\ UNCHANGED <<today, pivot, tasks, pc, users_from_1c, users_in_pivot, todo, to_archive,
                   step, write_failed, pulse, report, pending, twice, now_msk, daily, rc, override, sending, fetched, auth_cache, registered, access, arg, res>>

\* sync_auth returns
EndSyncAuth ==
    /\ pc = "delete"
    /\ sa.todo = {}
    /\ pc' = "authed"
    /\ UNCHANGED <<today, faults, pivot, tasks, auth, sa, users_from_1c, users_in_pivot, todo,
                   to_archive, step, write_failed, pulse, report, pending, twice, now_msk, daily, rc, override, sending, fetched, auth_cache, registered, access, arg, res>>

\* process_1c_sync returns after sync_auth
EndProcess ==
    /\ pc = "authed"
    /\ pc' = "idle"
    /\ users_from_1c' = EmptyDict
    /\ users_in_pivot' = EmptyDict
    /\ write_failed' = FALSE
    /\ sa' = NoAuthPass
    /\ UNCHANGED <<today, faults, pivot, tasks, auth, todo, to_archive, step, pulse, report, pending, twice, now_msk, daily, rc, override, sending, fetched, auth_cache, registered, access, arg, res>>

\* process_1c_sync started on one of AuthSources
StartSyncAuth == StartSyncFrom(AuthSources)

\* process_1c_sync started on one of AuthSources, by the scheduler or by hand
\* right after the pass before: the pass notes whether it repeats the source of
\* a pass in which no store call failed
StartSyncTwice ==
    /\ pc = "idle"
    /\ \E source \in TwiceSources, read_ok \in Outcomes :
        /\ Fault(read_ok)
        /\ users_from_1c' = source
        /\ users_in_pivot' = IF read_ok THEN get_pivot_table_users(pivot) ELSE EmptyDict
        /\ todo' = DOMAIN source
        /\ pending' = pending \cap DOMAIN source
        /\ twice' = [ prev    |-> {},
                      same    |-> \E p \in twice.prev : SameRows(p, source),
                      faults0 |-> faults ]
    /\ pc' = "users"
    /\ to_archive' = {}
    /\ step' = NoStep
    /\ write_failed' = FALSE
    /\ pulse' = NoPulse
    /\ report' = NoReport
    /\ UNCHANGED <<today, auth, sa, pivot, tasks, now_msk, daily, rc, override, sending, fetched, auth_cache, registered, access, arg, res>>

\* process_1c_sync returns after sync_auth; the next pass may follow at once
EndProcessTwice ==
    /\ pc = "authed"
    /\ pc' = "idle"
    /\ twice' = [ NoTwice EXCEPT !.prev =
                     IF faults = twice.faults0 /\ ~ write_failed /\ sa.writes_ok
                     THEN {users_from_1c} ELSE {} ]
    /\ users_from_1c' = EmptyDict
    /\ users_in_pivot' = EmptyDict
    /\ write_failed' = FALSE
    /\ sa' = NoAuthPass
    /\ UNCHANGED <<today, faults, pivot, tasks, auth, todo, to_archive, step, pulse, report, pending, now_msk, daily, rc, override, sending, fetched, auth_cache, registered, access, arg, res>>

\* process_1c_sync run again and again
NextTwice ==
    \/ StartSyncTwice
    \/ \E snils \in SNILS : SyncUser(snils)
    \/ CheckTask
    \/ WriteTask
    \/ BeginArchive
    \/ \E snils \in SNILS : ArchiveUser(snils)
    \/ EndSyncPivot
    \/ StartAuth
    \/ \E snils \in SNILS : AuthUser(snils)
    \/ BeginDelete
    \/ \E snils \in SNILS : DeleteUser(snils)
    \/ EndSyncAuth
    \/ EndProcessTwice

SpecTwice == Init /\ [][NextTwice]_vars

\* the whole of process_1c_sync
NextAuth ==
    \/ StartSyncAuth
    \/ \E snils \in SNILS : SyncUser(snils)
    \/ CheckTask
    \/ WriteTask
    \/ BeginArchive
    \/ \E snils \in SNILS : ArchiveUser(snils)
    \/ EndSyncPivot
    \/ StartAuth
    \/ \E snils \in SNILS : AuthUser(snils)
    \/ BeginDelete
    \/ \E snils \in SNILS : DeleteUser(snils)
    \/ EndSyncAuth
    \/ EndProcess

SpecAuth == Init /\ [][NextAuth]_vars

-----------------------------------------------------------------------------
(* app/db/sync_1c.py: process_1c_sync from get_all_1c_users on *)

\* the 1C table is fetched in two batches of 1000 rows; the rows of the
\* first identity are in the first batch, those of the second identity in the
\* second; a batch is written as the users its rows aggregate to
FirstBatchSnils == {"111-222-333 01"}

\* the 1C tables: a table with rows past the first thousand has a first
\* thousand
Tables1C ==
    { f \in AuthSources : DOMAIN f # {} => DOMAIN f \cap FirstBatchSnils # {} }

\* the rows of the table with start <= position < start + 1000
Batch(table, start) ==
    LET ids == IF start = 0 THEN DOMAIN table \cap FirstBatchSnils
               ELSE DOMAIN table \ FirstBatchSnils
    IN  [ n \in ids |-> table[n] ]

\* app/db/table_data.py fetch_table: the rows, [] when the store call raised
fetch_table(ok, rows) == IF ok THEN rows ELSE EmptyDict

\* get_all_1c_users: no first batch, no data; a second batch that is empty
\* or failed leaves the first batch alone
get_all_1c_users(first_ok, second_ok, table) ==
    LET first_batch == fetch_table(first_ok, Batch(table, 0))
        second_batch == fetch_table(second_ok, Batch(table, 1000))
    IN  IF first_batch = EmptyDict THEN EmptyDict
        ELSE IF second_batch # EmptyDict THEN first_batch @@ second_batch
        ELSE first_batch

\* process_1c_sync from its first line to the first loop of sync_pivot: the
\* two fetches and the read of the pivot table may each fail; without data
\* the pass returns at once
StartSyncPull ==
    /\ pc = "idle"
    /\ \E table \in Tables1C, first_ok \in Outcomes, second_ok \in Outcomes,
          read_ok \in Outcomes :
        LET all_1c_data == get_all_1c_users(first_ok, second_ok, table)
            \* the second fetch and the pivot read happen only after a first batch
            second_failed == fetch_table(first_ok, Batch(table, 0)) # EmptyDict /\ ~second_ok
            read_failed == all_1c_data # EmptyDict /\ ~read_ok
            failed == (IF first_ok THEN 0 ELSE 1) + (IF second_failed THEN 1 ELSE 0)
                        + (IF read_failed THEN 1 ELSE 0)
        IN  /\ first_ok \/ second_ok
            /\ all_1c_data = EmptyDict => read_ok
            /\ faults + failed <= MaxFaults
            /\ faults' = faults + failed
            /\ fetched' = [ table |-> table, complete |-> first_ok /\ ~second_failed ]
            /\ IF all_1c_data = EmptyDict
               THEN UNCHANGED <<pc, users_from_1c, users_in_pivot, todo, pending>>
               ELSE /\ pc' = "users"
                    /\ users_from_1c' = all_1c_data
                    /\ users_in_pivot' = IF read_ok THEN get_pivot_table_users(pivot)
                                         ELSE EmptyDict
                    /\ todo' = DOMAIN all_1c_data
                    /\ pending' = pending \cap DOMAIN all_1c_data
    /\ to_archive' = {}
    /\ step' = NoStep
    /\ write_failed' = FALSE
    /\ pulse' = NoPulse
    /\ report' = NoReport
    /\ UNCHANGED <<today, auth, sa, pivot, tasks, twice, now_msk, daily, rc, override, sending, auth_cache, registered, access, arg, res>>

NextPull ==
    \/ StartSyncPull
    \/ \E snils \in SNILS : SyncUser(snils)
    \/ CheckTask
    \/ WriteTask
    \/ BeginArchive
    \/ \E snils \in SNILS : ArchiveUser(snils)
    \/ EndSyncPivot
    \/ StartAuth
    \/ \E snils \in SNILS : AuthUser(snils)
    \/ BeginDelete
    \/ \E snils \in SNILS : DeleteUser(snils)
    \/ EndSyncAuth
    \/ EndProcess

SpecPull == Init /\ [][NextPull]_vars

-----------------------------------------------------------------------------
(* Pure functions applied to every input of a range *)

PollFrom == Today0 - PollSpan
HolidayFrom == days_from_civil(2024, 12, 25)

InitPolls ==
    /\ pivot = <<>>
    /\ tasks = <<>>
    /\ users_from_1c = EmptyDict
    /\ users_in_pivot = EmptyDict
    /\ todo = {}
    /\ to_archive = {}
    /\ step = NoStep
    /\ write_failed = FALSE
    /\ pulse = NoPulse
    /\ report = NoReport
    /\ auth = EmptyDict
    /\ sa = NoAuthPass
    /\ faults = 0
    /\ res = <<>>
    /\ today = Today0
    /\ pc = "polls_in"
    /\ pending = {}
    /\ twice = NoTwice
    /\ now_msk = 0
    /\ daily = NoDaily
    /\ rc = NoRoleCheck
    /\ override = EmptyDict
    /\ sending = NoSending
    /\ fetched = NoFetch
    /\ auth_cache = EmptyDict
    /\ registered = EmptyDict
    /\ access = NoAccess
    /\ arg \in PollFrom .. (PollFrom + PollSpan + 3)

ApplyNeededPolls ==
    /\ pc = "polls_in"
    /\ res' = _get_needed_polls(arg, today)
    /\ pc' = "polls_out"
    /\ UNCHANGED <<today, faults, auth, sa, report, pivot, tasks, users_from_1c, users_in_pivot, todo, to_archive,
                   step, write_failed, pulse, pending, twice, now_msk, daily, rc, override, sending, fetched, auth_cache, registered, access, arg>>

SpecPolls == InitPolls /\ [][ApplyNeededPolls]_vars

InitHoliday ==
    /\ pivot = <<>>
    /\ tasks = <<>>
    /\ users_from_1c = EmptyDict
    /\ users_in_pivot = EmptyDict
    /\ todo = {}
    /\ to_archive = {}
    /\ step = NoStep
    /\ write_failed = FALSE
    /\ pulse = NoPulse
    /\ report = NoReport
    /\ auth = EmptyDict
    /\ sa = NoAuthPass
    /\ faults = 0
    /\ res = <<>>
    /\ today = Today0
    /\ pc = "holiday_in"
    /\ pending = {}
    /\ twice = NoTwice
    /\ now_msk = 0
    /\ daily = NoDaily
    /\ rc = NoRoleCheck
    /\ override = EmptyDict
    /\ sending = NoSending
    /\ fetched = NoFetch
    /\ auth_cache = EmptyDict
    /\ registered = EmptyDict
    /\ access = NoAccess
    /\ arg \in HolidayFrom .. (HolidayFrom + HolidaySpan)

ApplyAdjustPollDate ==
    /\ pc = "holiday_in"
    /\ res' = adjust_poll_date(arg)
    /\ pc' = "holiday_out"
    /\ UNCHANGED <<today, faults, auth, sa, report, pivot, tasks, users_from_1c, users_in_pivot, todo, to_archive,
                   step, write_failed, pulse, pending, twice, now_msk, daily, rc, override, sending, fetched, auth_cache, registered, access, arg>>

SpecHoliday == InitHoliday /\ [][ApplyAdjustPollDate]_vars

\* a Date_employment that does not parse
BadDateStr == <<2025, 2, 30>>

\* the role computation of sync_auth for every today from 27 May 2025 on and
\* every Date_employment around three months before: absent, malformed, a date
RoleFrom == days_from_civil(2025, 5, 27)
RoleHireFrom == days_from_civil(2025, 2, 25)
RoleDates ==
    { NoDateStr, BadDateStr } \cup { isoformat(d) : d \in RoleHireFrom .. (RoleHireFrom + RoleSpan + 2) }

InitRole ==
    /\ pivot = <<>>
    /\ tasks = <<>>
    /\ users_from_1c = EmptyDict
    /\ users_in_pivot = EmptyDict
    /\ todo = {}
    /\ to_archive = {}
    /\ step = NoStep
    /\ write_failed = FALSE
    /\ pulse = NoPulse
    /\ report = NoReport
    /\ auth = EmptyDict
    /\ sa = NoAuthPass
    /\ faults = 0
    /\ res = <<>>
    /\ today \in RoleFrom .. (RoleFrom + RoleSpan)
    /\ pc = "role_in"
    /\ pending = {}
    /\ twice = NoTwice
    /\ now_msk = 0
    /\ daily = NoDaily
    /\ rc = NoRoleCheck
    /\ override = EmptyDict
    /\ sending = NoSending
    /\ fetched = NoFetch
    /\ auth_cache = EmptyDict
    /\ registered = EmptyDict
    /\ access = NoAccess
    /\ arg \in RoleDates

ApplyRole ==
    /\ pc = "role_in"
    /\ res' = role_of(arg, today)
    /\ pc' = "role_out"
    /\ UNCHANGED <<today, faults, auth, sa, report, pivot, tasks, users_from_1c, users_in_pivot,
                   todo, to_archive, step, write_failed, pulse, pending, twice, now_msk, daily, rc, override, sending, fetched, auth_cache, registered, access, arg>>

SpecRole == InitRole /\ [][ApplyRole]_vars

\* normalize_phone on strings given character by character

\* the digits of the longest input, at most
MaxDigits == 12

\* the characters \d matches: the ASCII digits and, as re works on str, every
\* other decimal digit of Unicode, here ARABIC-INDIC DIGIT THREE
DIGITS == <<"0", "1", "2", "3", "4", "5", "6", "7", "8", "9", "arabic3">>

\* a digit character as the number that stands for it in a token
ord(c) == (CHOOSE i \in DOMAIN DIGITS : DIGITS[i] = c) - 1

\* re.sub(r'\D', '', raw)
RECURSIVE re_sub_D(_)
re_sub_D(raw) ==
    IF raw = <<>> THEN <<>>
    ELSE (IF Head(raw) \in Range(DIGITS) THEN <<ord(Head(raw))>> ELSE <<>>) \o re_sub_D(Tail(raw))

\* the characters of a sequence of digits
str(digits) == [ i \in DOMAIN digits |-> DIGITS[digits[i] + 1] ]

\* the string the f-strings of normalize_phone build: f"+{digits}" and
\* f"{digits[:3]}-{digits[3:5]}-{digits[5:7]}", <<>> for None
format_phone(phone) ==
    IF phone = NoPhone THEN <<>>
    ELSE LET token == phone[1][1]
             d     == str(token.digits)
         IN  IF token.plus THEN <<"+">> \o d
             ELSE SubSeq(d, 1, 3) \o <<"-">> \o SubSeq(d, 4, 5) \o <<"-">> \o SubSeq(d, 6, 7)

\* normalize_phone(raw) for a string raw
normalize_phone_str(raw) ==
    IF raw = <<>> THEN <<>>
    ELSE format_phone(normalize_phone(<< [plus |-> Head(raw) = "+", digits |-> re_sub_D(raw)] >>))

\* n digit characters: the first and the second vary
DigitString(n, first, second) ==
    [ i \in 1 .. n |-> IF i = 1 THEN first ELSE IF i = 2 THEN second ELSE "1" ]

\* a digit string as it is, with a plus sign, with a hyphen after every
\* digit, or between a letter and a blank
RECURSIVE Hyphenated(_)
Hyphenated(d) == IF d = <<>> THEN <<>> ELSE <<Head(d), "-">> \o Hyphenated(Tail(d))

PhoneInputs ==
    UNION { { d, <<"+">> \o d, Hyphenated(d), <<"a">> \o d \o <<" ">> } :
              d \in { DigitString(n, first, second) :
                         n \in 0 .. MaxDigits,
                         first \in {"7", "8", "9", "arabic3"},
                         second \in {"0", "9"} } }

InitPhone ==
    /\ pivot = <<>>
    /\ tasks = <<>>
    /\ users_from_1c = EmptyDict
    /\ users_in_pivot = EmptyDict
    /\ todo = {}
    /\ to_archive = {}
    /\ step = NoStep
    /\ write_failed = FALSE
    /\ pulse = NoPulse
    /\ report = NoReport
    /\ auth = EmptyDict
    /\ sa = NoAuthPass
    /\ faults = 0
    /\ res = <<>>
    /\ today = Today0
    /\ pc = "phone_in"
    /\ pending = {}
    /\ twice = NoTwice
    /\ now_msk = 0
    /\ daily = NoDaily
    /\ rc = NoRoleCheck
    /\ override = EmptyDict
    /\ sending = NoSending
    /\ fetched = NoFetch
    /\ auth_cache = EmptyDict
    /\ registered = EmptyDict
    /\ access = NoAccess
    /\ arg \in PhoneInputs

\* normalize_phone(raw), and normalize_phone of what it returned
ApplyNormalizePhone ==
    /\ pc = "phone_in"
    /\ res' = [ first |-> normalize_phone_str(arg),
                again |-> normalize_phone_str(normalize_phone_str(arg)) ]
    /\ pc' = "phone_out"
    /\ UNCHANGED <<today, faults, auth, sa, report, pivot, tasks, users_from_1c, users_in_pivot,
                   todo, to_archive, step, write_failed, pulse, pending, twice, now_msk, daily, rc, override, sending, fetched, auth_cache, registered, access, arg>>

SpecPhone == InitPhone /\ [][ApplyNormalizePhone]_vars

\* create_tasks called on its own (create_pulse_all_tasks), any number of times
\* for one employee whose Date_employment is absent, malformed, or a date
CallHires == { Today0 - 800, Today0 - 366, Today0 - 365, Today0 - 200, Today0 - 91,
               Today0 - 20, Today0 + 1 }
CallDates == { NoDateStr, BadDateStr } \cup { isoformat(d) : d \in CallHires }

CallUser == [ Name            |-> "111-222-333 01",
              SNILS           |-> "111-222-333 01",
              FIO             |-> "Ivanova Anna",
              Department      |-> "IT",
              Date_employment |-> NoDateStr ]

InitCreateTasks ==
    /\ pivot = <<>>
    /\ tasks = <<>>
    /\ users_from_1c = EmptyDict
    /\ users_in_pivot = EmptyDict
    /\ todo = {}
    /\ to_archive = {}
    /\ step = NoStep
    /\ write_failed = FALSE
    /\ pulse = NoPulse
    /\ report = NoReport
    /\ auth = EmptyDict
    /\ sa = NoAuthPass
    /\ faults = 0
    /\ res = <<>>
    /\ today = Today0
    /\ pc = "call"
    /\ pending = {}
    /\ twice = NoTwice
    /\ now_msk = 0
    /\ daily = NoDaily
    /\ rc = NoRoleCheck
    /\ override = EmptyDict
    /\ sending = NoSending
    /\ fetched = NoFetch
    /\ auth_cache = EmptyDict
    /\ registered = EmptyDict
    /\ access = NoAccess
    /\ arg \in CallDates

CallCreateTasks ==
    /\ pc \in {"call", "returned"}
    /\ pulse' = create_tasks([ CallUser EXCEPT !.Date_employment = arg ], "returned")
    /\ pc' = IF pulse'.needed # <<>> THEN "tasks" ELSE "returned"
    /\ UNCHANGED <<today, faults, auth, sa, report, pivot, tasks, users_from_1c, users_in_pivot, todo, to_archive,
                   step, write_failed, pending, twice, now_msk, daily, rc, override, sending, fetched, auth_cache, registered, access, arg, res>>

NextCreateTasks == CallCreateTasks \/ CheckTask \/ WriteTask

SpecCreateTasks == InitCreateTasks /\ [][NextCreateTasks]_vars

-----------------------------------------------------------------------------
(* aggregate_1c_users applied to the rows of one identity, and again to the
   same rows in any order *)

AggregateArgs ==
    { [ rows |-> rows, again |-> again ] :
        rows \in RowLists, again \in UNION { Orderings(Range(r)) : r \in RowLists } }

InitAggregate ==
    /\ pivot = <<>>
    /\ tasks = <<>>
    /\ users_from_1c = EmptyDict
    /\ users_in_pivot = EmptyDict
    /\ todo = {}
    /\ to_archive = {}
    /\ step = NoStep
    /\ write_failed = FALSE
    /\ pulse = NoPulse
    /\ report = NoReport
    /\ auth = EmptyDict
    /\ sa = NoAuthPass
    /\ faults = 0
    /\ res = <<>>
    /\ today = Today0
    /\ pc = "aggregate_in"
    /\ pending = {}
    /\ twice = NoTwice
    /\ now_msk = 0
    /\ daily = NoDaily
    /\ rc = NoRoleCheck
    /\ override = EmptyDict
    /\ sending = NoSending
    /\ fetched = NoFetch
    /\ auth_cache = EmptyDict
    /\ registered = EmptyDict
    /\ access = NoAccess
    /\ arg \in { a \in AggregateArgs : Range(a.again) = Range(a.rows) }

ApplyAggregate ==
    /\ pc = "aggregate_in"
    /\ \E first \in Aggregations(arg.rows), again \in Aggregations(arg.again) :
          res' = [ first |-> first, again |-> again ]
    /\ pc' = "aggregate_out"
    /\ UNCHANGED <<today, faults, auth, sa, report, pivot, tasks, users_from_1c, users_in_pivot,
                   todo, to_archive, step, write_failed, pulse, pending, twice, now_msk, daily, rc, override, sending, fetched, auth_cache, registered, access, arg>>

SpecAggregate == InitAggregate /\ [][ApplyAggregate]_vars

-----------------------------------------------------------------------------
(* app/db/roles.py: the daily role check and the role change of the admin
   commands *)

\* the days the clock moves on by, at most
MaxAdvance == 1

_is_still_newcomer(employment_date, now) ==
    IF employment_date = NoDate THEN TRUE
    ELSE employment_date > minus_three_months(now)

\* _check_user_role(user, users_1c): the row of the authorization table and
\* the rows of the pivot table are matched on the key SNILS
_check_user_role(user, users_1c, now) ==
    LET user_snils == Get(user, "SNILS")
        found      == { i \in DOMAIN users_1c : Get(users_1c[i], "SNILS") = user_snils }
    IN  IF user_snils \in {None, ""} THEN FALSE
        ELSE IF found = {} THEN FALSE
        ELSE LET user_1c == users_1c[Min(found)]
             IN  ~ _is_still_newcomer(_parse_date(Get(user_1c, "Date_employment")), now)

\* the rows of the authorization table with the ids, in the order of the table
RECURSIVE RowsInOrder(_)
RowsInOrder(ids) ==
    IF ids = {} THEN <<>>
    ELSE <<AuthRow(Min(ids))>> \o RowsInOrder(ids \ {Min(ids)})

\* the aggregated users of the passes that run next to the role check: one
\* identity, hired long ago or recently
RoleSources ==
    { f \in Sources : \A n \in DOMAIN f :
         n = "111-222-333 01"
         /\ f[n] \in { AggregatedUser(n, 1, OldHire), AggregatedUser(n, 1, RecentHire) } }

StartSyncRoles == StartSyncFrom(RoleSources)

\* midnight passes while no job runs
NextDay ==
    /\ pc = "idle"
    /\ today < Today0 + MaxAdvance
    /\ today' = today + 1
    /\ UNCHANGED <<pivot, tasks, pc, users_from_1c, users_in_pivot, todo, to_archive, step,
                   write_failed, pulse, report, auth, sa, faults, pending, twice, now_msk,
                   daily, rc, override, sending, fetched, auth_cache, registered, access, arg, res>>

\* /checkout_newcomer and /checkout_employee: change_user_role(user_id,
\* new_role) on the row that carries the messenger id of the admin, which
\* can be any row of the table
ChangeUserRole(id, new_role) ==
    /\ pc = "idle"
    /\ id \in DOMAIN auth
    /\ \E ok \in Outcomes :
          /\ Fault(ok)
          /\ IF ok
             THEN /\ auth' = [auth EXCEPT ![id].Role = new_role]
                  /\ override' = [ i \in DOMAIN override \cup {id} |->
                                     IF i = id THEN [auth[id] EXCEPT !.Role = new_role]
                                     ELSE override[i] ]
             ELSE UNCHANGED <<auth, override>>
    /\ UNCHANGED <<today, pivot, tasks, pc, users_from_1c, users_in_pivot, todo, to_archive,
                   step, write_failed, pulse, report, sa, pending, twice, now_msk, daily, rc,
                   sending, fetched, auth_cache, registered, access, arg, res>>

\* check_and_update_roles up to its loop: the newcomers of the authorization
\* table and the pivot table are read; with no newcomer or no pivot row the
\* run ends without a check
StartRoleCheck ==
    /\ pc = "idle"
    /\ \E auth_ok \in Outcomes, pivot_ok \in Outcomes :
         /\ (auth_ok \/ pivot_ok \/ faults + 2 <= MaxFaults)
         /\ faults' = faults + (IF auth_ok THEN 0 ELSE 1) + (IF pivot_ok THEN 0 ELSE 1)
         /\ LET newcomers == { i \in DOMAIN auth : auth[i].Role = NEWCOMER }
                read      == IF auth_ok THEN RowsInOrder(newcomers) ELSE <<>>
                users     == IF pivot_ok THEN pivot ELSE <<>>
            IN  rc' = [ newcomer_users |-> read,
                        users_pivot    |-> IF read = <<>> THEN <<>> ELSE users,
                        next           |-> IF read = <<>> \/ users = <<>> THEN Len(read) + 1 ELSE 1,
                        had            |-> newcomers,
                        calls_ok       |-> auth_ok /\ pivot_ok ]
    /\ pc' = "roles"
    /\ UNCHANGED <<today, pivot, tasks, users_from_1c, users_in_pivot, todo, to_archive, step,
                   write_failed, pulse, report, auth, sa, pending, twice, now_msk, daily,
                   override, sending, fetched, auth_cache, registered, access, arg, res>>

\* one iteration of the loop over newcomer_users
CheckUserRole ==
    /\ pc = "roles"
    /\ rc.next <= Len(rc.newcomer_users)
    /\ LET user == rc.newcomer_users[rc.next] IN
       IF _check_user_role(user, rc.users_pivot, today)
       THEN \E success \in Outcomes :
              /\ Fault(success)
              /\ auth' = IF success /\ user._id \in DOMAIN auth
                         THEN [auth EXCEPT ![user._id].Role = EMPLOYEE]
                         ELSE auth
              /\ rc' = [rc EXCEPT !.next = @ + 1, !.calls_ok = @ /\ success]
       ELSE /\ rc' = [rc EXCEPT !.next = @ + 1]
            /\ UNCHANGED <<auth, faults>>
    /\ UNCHANGED <<today, pivot, tasks, pc, users_from_1c, users_in_pivot, todo, to_archive,
                   step, write_failed, pulse, report, sa, pending, twice, now_msk, daily,
                   override, sending, fetched, auth_cache, registered, access, arg, res>>

\* check_and_update_roles returns
EndRoleCheck ==
    /\ pc = "roles"
    /\ rc.next > Len(rc.newcomer_users)
    /\ pc' = "idle"
    /\ rc' = NoRoleCheck
    /\ UNCHANGED <<today, pivot, tasks, users_from_1c, users_in_pivot, todo, to_archive, step,
                   write_failed, pulse, report, auth, sa, faults, pending, twice, now_msk,
                   daily, override, sending, fetched, auth_cache, registered, access, arg, res>>

\* the sync job, the role check and the admin commands, one at a time
NextRoles ==
    \/ StartSyncRoles
    \/ \E snils \in SNILS : SyncUser(snils)
    \/ CheckTask
    \/ WriteTask
    \/ BeginArchive
    \/ \E snils \in SNILS : ArchiveUser(snils)
    \/ EndSyncPivot
    \/ StartAuth
    \/ \E snils \in SNILS : AuthUser(snils)
    \/ BeginDelete
    \/ \E snils \in SNILS : DeleteUser(snils)
    \/ EndSyncAuth
    \/ EndProcess
    \/ NextDay
    \/ \E id \in 1 .. MaxAuth, new_role \in {NEWCOMER, EMPLOYEE} : ChangeUserRole(id, new_role)
    \/ StartRoleCheck
    \/ CheckUserRole
    \/ EndRoleCheck

SpecRoles == Init /\ [][NextRoles]_vars

\* change_user_role awaited by a command handler while sync_auth is between
\* its first get_auth() and the end of its loop over the active records: the
\* handlers and the sync job are tasks of one event loop, and every store
\* call of sync_auth is an await at which a handler may run
ChangeUserRoleInSync(id, new_role) ==
    /\ pc = "auth"
    /\ sa.todo # {}
    /\ id \in DOMAIN auth
    /\ \E ok \in Outcomes :
          /\ Fault(ok)
          /\ IF ok
             THEN /\ auth' = [auth EXCEPT ![id].Role = new_role]
                  /\ override' = [ i \in DOMAIN override \cup {id} |->
                                     IF i = id THEN [auth[id] EXCEPT !.Role = new_role]
                                     ELSE override[i] ]
                  /\ sa' = [sa EXCEPT !.changed = @ \cup {id}]
             ELSE UNCHANGED <<auth, override, sa>>
    /\ UNCHANGED <<today, pivot, tasks, pc, users_from_1c, users_in_pivot, todo, to_archive,
                   step, write_failed, pulse, report, pending, twice, now_msk, daily, rc,
                   sending, fetched, auth_cache, registered, access, arg, res>>

\* the sync job with the admin commands running between its store calls
NextRace ==
    \/ StartSyncRoles
    \/ \E snils \in SNILS : SyncUser(snils)
    \/ CheckTask
    \/ WriteTask
    \/ BeginArchive
    \/ \E snils \in SNILS : ArchiveUser(snils)
    \/ EndSyncPivot
    \/ StartAuth
    \/ \E snils \in SNILS : AuthUser(snils)
    \/ BeginDelete
    \/ \E snils \in SNILS : DeleteUser(snils)
    \/ EndSyncAuth
    \/ EndProcess
    \/ NextDay
    \/ \E id \in 1 .. MaxAuth, new_role \in {NEWCOMER, EMPLOYEE} : ChangeUserRoleInSync(id, new_role)

SpecRace == Init /\ [][NextRace]_vars

-----------------------------------------------------------------------------
(* start_sync_scheduler: the two run_daily_task coroutines *)

\* everything but the wall clock and the scheduler coroutines
sync_vars ==
    <<today, pivot, tasks, pc, users_from_1c, users_in_pivot, todo, to_archive, step,
      write_failed, pulse, report, auth, sa, faults, pending, twice, rc, override, sending,
      fetched, auth_cache, registered, access, arg, res>>

\* the coroutine waits for a timer or for its task
Waiting(job) == daily[job].pc \in {"loop", "sleeping", "running", "cooldown"}

\* the await of the coroutine is the next to end
Turn(job) ==
    /\ Waiting(job)
    /\ \A other \in AllJobs \ {job} : Waiting(other) => daily[job].wake <= daily[other].wake

\* asyncio.gather has started both coroutines
InitDaily ==
    /\ today = Today0
    /\ pivot = <<>>
    /\ tasks = <<>>
    /\ users_from_1c = EmptyDict
    /\ users_in_pivot = EmptyDict
    /\ todo = {}
    /\ to_archive = {}
    /\ step = NoStep
    /\ write_failed = FALSE
    /\ pulse = NoPulse
    /\ report = NoReport
    /\ auth = EmptyDict
    /\ sa = NoAuthPass
    /\ faults = 0
    /\ pc = "scheduler"
    /\ pending = {}
    /\ twice = NoTwice
    /\ rc = NoRoleCheck
    /\ override = EmptyDict
    /\ sending = NoSending
    /\ fetched = NoFetch
    /\ auth_cache = EmptyDict
    /\ registered = EmptyDict
    /\ access = NoAccess
    /\ arg = <<>>
    /\ res = <<>>
    /\ now_msk \in Boots
    /\ daily = [ job \in AllJobs |->
                   IF job \in Jobs THEN [ NoLoop EXCEPT !.pc = "loop", !.wake = now_msk ]
                   ELSE NoLoop ]

\* the top of the while loop: next_run is computed and the sleep begins
Arm(job) ==
    /\ job \in Jobs
    /\ daily[job].pc \in {"loop", "cooldown"}
    /\ Turn(job)
    /\ LET now == daily[job].wake
           run == next_run(now, times(job))
       IN  /\ now_msk' = now
           /\ IF run > Horizon
              THEN daily' = [daily EXCEPT ![job].pc = "parked"]
              ELSE \E e \in Jitter :
                      daily' = [daily EXCEPT ![job].pc = "sleeping",
                                             ![job].armed = run,
                                             ![job].wake = Wake(now, run - now, e)]
    /\ UNCHANGED sync_vars

\* the same with asyncio.create_task(task()) in place of await task()
StartDetached(job) ==
    /\ job \in Jobs
    /\ daily[job].pc = "sleeping"
    /\ Turn(job)
    /\ now_msk' = daily[job].wake
    /\ \E e \in Jitter :
          daily' = [daily EXCEPT ![job].pc = "cooldown",
                                 ![job].wake = Wake(@, COOLDOWN, e),
                                 ![job].fired = @ \cup {daily[job].armed},
                                 ![job].inflight = @ + 1]
    /\ UNCHANGED sync_vars

\* the sleep ends and the task is awaited
Start(job) ==
    /\ job \in Jobs
    /\ daily[job].pc = "sleeping"
    /\ Turn(job)
    /\ now_msk' = daily[job].wake
    /\ \E d \in Durations :
          daily' = [daily EXCEPT ![job].pc = "running",
                                 ![job].wake = @ + d,
                                 ![job].fired = @ \cup {daily[job].armed},
                                 ![job].inflight = @ + 1]
    /\ UNCHANGED sync_vars

\* the same without the except clause
EndUnguarded(job) ==
    /\ job \in Jobs
    /\ daily[job].pc = "running"
    /\ Turn(job)
    /\ now_msk' = daily[job].wake
    /\ \E outcome \in {"returned", "raised"}, e \in Jitter :
          daily' = [daily EXCEPT ![job].pc = IF outcome = "raised" THEN "dead" ELSE "cooldown",
                                 ![job].wake = Wake(@, COOLDOWN, e),
                                 ![job].inflight = @ - 1,
                                 ![job].outcome = outcome,
                                 ![job].due = next_run(Wake(daily[job].wake, COOLDOWN, e), times(job))]
    /\ UNCHANGED sync_vars

\* the same without the sleep after the task
EndNoCooldown(job) ==
    /\ job \in Jobs
    /\ daily[job].pc = "running"
    /\ Turn(job)
    /\ now_msk' = daily[job].wake
    /\ \E outcome \in {"returned", "raised"} :
          daily' = [daily EXCEPT ![job].pc = "cooldown",
                                 ![job].inflight = @ - 1,
                                 ![job].outcome = outcome,
                                 ![job].due = next_run(daily[job].wake, times(job))]
    /\ UNCHANGED sync_vars

\* the task returns, or raises an Exception that is logged; the sleep of
\* five seconds begins
End(job) ==
    /\ job \in Jobs
    /\ daily[job].pc = "running"
    /\ Turn(job)
    /\ now_msk' = daily[job].wake
    /\ \E outcome \in {"returned", "raised"}, e \in Jitter :
          daily' = [daily EXCEPT ![job].pc = "cooldown",
                                 ![job].wake = Wake(@, COOLDOWN, e),
                                 ![job].inflight = @ - 1,
                                 ![job].outcome = outcome,
                                 ![job].due = next_run(Wake(daily[job].wake, COOLDOWN, e), times(job))]
    /\ UNCHANGED sync_vars

NextDaily == \E job \in Jobs : Arm(job) \/ Start(job) \/ End(job)

SpecDaily == InitDaily /\ [][NextDaily]_vars

\* a timer that is due fires and a task that is awaited ends
FairDaily == SpecDaily /\ \A job \in Jobs : WF_vars(Arm(job) \/ Start(job) \/ End(job))

-----------------------------------------------------------------------------
(* main.py: main, which starts start_pulse_sender_scheduler only *)

InitMain ==
    /\ today = Today0
    /\ pivot = <<>>
    /\ tasks = <<>>
    /\ users_from_1c = EmptyDict
    /\ users_in_pivot = EmptyDict
    /\ todo = {}
    /\ to_archive = {}
    /\ step = NoStep
    /\ write_failed = FALSE
    /\ pulse = NoPulse
    /\ report = NoReport
    /\ auth = EmptyDict
    /\ sa = NoAuthPass
    /\ faults = 0
    /\ pc = "polling"
    /\ pending = {}
    /\ twice = NoTwice
    /\ rc = NoRoleCheck
    /\ override = EmptyDict
    /\ sending = NoSending
    /\ fetched = NoFetch
    /\ auth_cache = EmptyDict
    /\ registered = EmptyDict
    /\ access = NoAccess
    /\ arg = <<>>
    /\ res = <<>>
    /\ now_msk \in Boots
    /\ daily = [ job \in AllJobs |->
                   IF job = "pulse" THEN [ NoLoop EXCEPT !.pc = "loop", !.wake = now_msk ]
                   ELSE NoLoop ]

\* _wait_until(sending_time)
WaitUntil ==
    /\ daily["pulse"].pc \in {"loop", "cooldown"}
    /\ LET now == daily["pulse"].wake
           run == wait_until(now, sending_time)
       IN  /\ now_msk' = now
           /\ IF run > Horizon
              THEN daily' = [daily EXCEPT !["pulse"].pc = "parked"]
              ELSE \E e \in Jitter :
                      daily' = [daily EXCEPT !["pulse"].pc = "sleeping",
                                             !["pulse"].armed = run,
                                             !["pulse"].wake = Wake(now, run - now, e)]
    /\ UNCHANGED sync_vars

\* await sender.send_daily_pulses()
SendDailyPulses ==
    /\ daily["pulse"].pc = "sleeping"
    /\ now_msk' = daily["pulse"].wake
    /\ \E d \in Durations :
          daily' = [daily EXCEPT !["pulse"].pc = "running",
                                 !["pulse"].wake = @ + d,
                                 !["pulse"].fired = @ \cup {daily["pulse"].armed},
                                 !["pulse"].inflight = @ + 1]
    /\ UNCHANGED sync_vars

\* the pulses are sent, or an Exception is logged; the sleep of a minute begins
PulsesSent ==
    /\ daily["pulse"].pc = "running"
    /\ now_msk' = daily["pulse"].wake
    /\ \E outcome \in {"returned", "raised"}, e \in Jitter :
          daily' = [daily EXCEPT !["pulse"].pc = "cooldown",
                                 !["pulse"].wake = Wake(@, PAUSE, e),
                                 !["pulse"].inflight = @ - 1,
                                 !["pulse"].outcome = outcome]
    /\ UNCHANGED sync_vars

NextMain == WaitUntil \/ SendDailyPulses \/ PulsesSent

SpecMain == InitMain /\ [][NextMain]_vars

-----------------------------------------------------------------------------
(* app/services/pulse_sender.py: send_daily_pulses under its scheduler *)

\* datetime.now().date() at the time now of the scheduler clock
date_of(now) == Today0 + now \div DAY

\* the employee the tasks of the table were created for: hired a week
\* before the first or the second day, or a month before the first
SenderHires == { <<Today0 - 7, "1_week">>, <<Today0 - 6, "1_week">>, <<Today0 - 30, "1_month">> }

\* the rows _create_single_task may have written for them
SenderTasks ==
    { TaskData([ CallUser EXCEPT !.Date_employment = isoformat(h[1]) ], h[1], h[2]) :
        h \in SenderHires }

\* the task tables the sender starts with: up to MaxTasks - 1 rows
SenderTables ==
    UNION { Orderings(S) : S \in { T \in SUBSET SenderTasks : Cardinality(T) < MaxTasks } }

\* a row of the task table as get_pulse_tasks returns it
TaskRow(i) ==
    [ f \in DOMAIN tasks[i] \cup {"_id"} |-> IF f = "_id" THEN i ELSE tasks[i][f] ]

\* the same without the comparison of the date
_get_tasks_for_today_any_date(read_ok, today_str) ==
    IF ~ read_ok THEN <<>>
    ELSE SelectSeq([ i \in DOMAIN tasks |-> TaskRow(i) ],
                   LAMBDA task : task.Status = "waiting")

\* _get_tasks_for_today(): the rows with Data_poll == today_str and Status ==
\* 'waiting', [] when the read fails
_get_tasks_for_today(read_ok, today_str) ==
    IF ~ read_ok THEN <<>>
    ELSE SelectSeq([ i \in DOMAIN tasks |-> TaskRow(i) ],
                   LAMBDA task : task.Data_poll = today_str /\ task.Status = "waiting")

InitSender ==
    /\ today = Today0
    /\ pivot = <<>>
    /\ tasks \in SenderTables
    /\ users_from_1c = EmptyDict
    /\ users_in_pivot = EmptyDict
    /\ todo = {}
    /\ to_archive = {}
    /\ step = NoStep
    /\ write_failed = FALSE
    /\ pulse = NoPulse
    /\ report = NoReport
    /\ auth = EmptyDict
    /\ sa = NoAuthPass
    /\ faults = 0
    /\ pc = "polling"
    /\ pending = {}
    /\ twice = NoTwice
    /\ rc = NoRoleCheck
    /\ override = EmptyDict
    /\ sending = [ NoSending EXCEPT !.sends = [ i \in DOMAIN tasks |-> 0 ] ]
    /\ fetched = NoFetch
    /\ auth_cache = EmptyDict
    /\ registered = EmptyDict
    /\ access = NoAccess
    /\ arg = <<>>
    /\ res = <<>>
    /\ now_msk \in {0, sending_time, DAY - 1}
    /\ daily = [ job \in AllJobs |->
                   IF job = "pulse" THEN [ NoLoop EXCEPT !.pc = "loop", !.wake = now_msk ]
                   ELSE NoLoop ]

\* _wait_until(sending_time) of the loop of start_pulse_sender_scheduler
WaitUntilSending ==
    /\ WaitUntil
    /\ sending.next > Len(sending.tasks_to_send)

\* send_daily_pulses up to its loop: the tasks for today and the poll
\* content are read; with no task or no content the pass sends nothing
GetTasksForToday ==
    /\ daily["pulse"].pc = "sleeping"
    /\ now_msk' = daily["pulse"].wake
    /\ today' = date_of(now_msk')
    /\ \E tasks_ok \in Outcomes, content_ok \in Outcomes :
          /\ (tasks_ok \/ content_ok \/ faults + 2 <= MaxFaults)
          /\ faults' = faults + (IF tasks_ok THEN 0 ELSE 1) + (IF content_ok THEN 0 ELSE 1)
          /\ LET tasks_to_send == _get_tasks_for_today(tasks_ok, isoformat(today'))
             IN  sending' = [ sending EXCEPT
                                !.tasks_to_send = IF content_ok THEN tasks_to_send ELSE <<>>,
                                !.next = 1 ]
    /\ \E d \in Durations :
          daily' = [daily EXCEPT !["pulse"].pc = "running",
                                 !["pulse"].wake = @ + d,
                                 !["pulse"].fired = @ \cup {daily["pulse"].armed},
                                 !["pulse"].inflight = @ + 1]
    /\ UNCHANGED <<pivot, tasks, pc, users_from_1c, users_in_pivot, todo, to_archive, step,
                   write_failed, pulse, report, auth, sa, pending, twice, rc, override,
                   fetched, auth_cache, registered, access, arg, res>>

\* one iteration of the loop over tasks_to_send: _send_single_pulse succeeds
\* or not, and _update_task_status writes 'sent' or 'declined' unless its
\* store call fails
SendSinglePulse ==
    /\ daily["pulse"].pc = "running"
    /\ sending.next <= Len(sending.tasks_to_send)
    /\ LET task == sending.tasks_to_send[sending.next] IN
       \E success \in BOOLEAN, updated \in Outcomes :
          /\ Fault(updated)
          /\ tasks' = IF updated
                      THEN [tasks EXCEPT ![task._id].Status =
                                            IF success THEN "sent" ELSE "declined"]
                      ELSE tasks
          /\ sending' = [ sending EXCEPT !.next = @ + 1, !.sends[task._id] = @ + 1 ]
    /\ UNCHANGED <<today, pivot, pc, users_from_1c, users_in_pivot, todo, to_archive, step,
                   write_failed, pulse, report, auth, sa, pending, twice, rc, override,
                   now_msk, daily, fetched, auth_cache, registered, access, arg, res>>

\* send_daily_pulses returns and the sleep of a minute begins
PulsesDone ==
    /\ PulsesSent
    /\ sending.next > Len(sending.tasks_to_send)

NextSender == WaitUntilSending \/ GetTasksForToday \/ SendSinglePulse \/ PulsesDone

SpecSender == InitSender /\ [][NextSender]_vars

-----------------------------------------------------------------------------
(* telegram/handlers/handler_base.py, app/services/cache.py, app/db/auth.py:
   registration by contact and the access check, next to the sync *)

\* message.from_user.id of the users of the bot
MessengerIds == {101, 202}

\* str(user_id)
id_str(user_id) == IF user_id = 101 THEN "101" ELSE "202"

\* contact.phone_number: the mobile number of the second identity written
\* with a leading 8, and a number that is not in the authorization table
Contacts ==
    { << [plus |-> FALSE, digits |-> <<8, 9, 2, 1, 2, 2, 2, 2, 2, 2, 2>>] >>,
      << [plus |-> TRUE, digits |-> <<7, 9, 9, 9, 9, 9, 9, 9, 9, 9, 9>>] >> }

\* the sources of the passes: the second identity is in the pull or not
BotSources == { f \in AuthSources : DOMAIN f \subseteq {"444-555-666 02"} }

\* check_id_messenger: the first row of the table that carries the messenger
\* id gives the role; (False, 'employee') for no row and for a failed read
check_id_messenger(table, id_messenger, read_ok) ==
    LET found == { i \in DOMAIN table : table[i].ID_messenger = id_messenger }
    IN  IF ~ read_ok \/ found = {} THEN <<FALSE, EMPLOYEE>>
        ELSE LET first == CHOOSE i \in found : \A j \in found : i <= j
             IN  <<TRUE, table[first].Role>>

\* get_user_access_and_role on the given cache and table:
\* <<has_access, role, the cache after the call>>
get_user_access_and_role(cache, table, user_id, read_ok) ==
    IF user_id \in DOMAIN cache THEN <<TRUE, cache[user_id], cache>>
    ELSE LET found == check_id_messenger(table, id_str(user_id), read_ok)
         IN  IF ~ found[1] THEN <<FALSE, None, cache>>
             ELSE <<TRUE, found[2],
                    [ u \in DOMAIN cache \cup {user_id} |->
                        IF u = user_id THEN found[2] ELSE cache[u] ]>>

\* clear_user_auth: auth_cache.pop(user_id, None)
clear_user_auth(cache, user_id) == [ u \in DOMAIN cache \ {user_id} |-> cache[u] ]

\* update_data of register_id_messenger applied to the row
RegisteredRow(row, id_messenger) ==
    [ f \in DOMAIN row \cup {"Date_registration"} |->
        IF f = "ID_messenger" THEN id_messenger
        ELSE IF f = "Date_registration" THEN isoformat(today)
        ELSE IF f = "Role" /\ row.Role \in {None, ""} THEN EMPLOYEE
        ELSE row[f] ]

\* users of register_id_messenger: the rows with (Phone,eq,phone)
PhoneRows(phone) == { i \in DOMAIN auth : auth[i].Phone = phone }

\* sync_auth has deleted the row that the last registration of the user wrote
\* (the row is gone, or a row created later has taken its place), and no row
\* carries the messenger id of the user
Revoked(user_id) ==
    /\ user_id \in DOMAIN registered
    /\ \/ registered[user_id] \notin DOMAIN auth
       \/ auth[registered[user_id]].ID_messenger = ""
    /\ \A i \in DOMAIN auth : auth[i].ID_messenger # id_str(user_id)

\* handle_contact: register_id_messenger looks the normalised phone up and
\* writes the messenger id to the first row found; after a registration the
\* cache entry is cleared and get_user_access_and_role is called. The lookup,
\* the write and the read of check_id_messenger may each fail
HandleContact(user_id, contact) ==
    /\ pc = "idle"
    /\ \E find_ok \in Outcomes, write_ok \in Outcomes, check_ok \in Outcomes :
        LET phone   == normalize_phone(contact)
            users   == IF find_ok THEN PhoneRows(phone) ELSE {}
            success == users # {} /\ write_ok
            failed  == (IF find_ok THEN 0 ELSE 1)
                         + (IF users # {} /\ ~ write_ok THEN 1 ELSE 0)
                         + (IF success /\ ~ check_ok THEN 1 ELSE 0)
        IN  /\ users = {} => write_ok
            /\ ~ success => check_ok
            /\ faults + failed <= MaxFaults
            /\ faults' = faults + failed
            /\ IF ~ success
               THEN UNCHANGED <<auth, auth_cache, registered, access>>
               ELSE LET user    == CHOOSE i \in users : \A j \in users : i <= j
                        table   == [auth EXCEPT ![user] = RegisteredRow(auth[user], id_str(user_id))]
                        got     == get_user_access_and_role(
                                       clear_user_auth(auth_cache, user_id), table,
                                       user_id, check_ok)
                    IN  /\ auth' = table
                        /\ registered' = [ u \in DOMAIN registered \cup {user_id} |->
                                             IF u = user_id THEN user ELSE registered[u] ]
                        /\ auth_cache' = got[3]
                        /\ access' = [ user_id |-> user_id, has_access |-> got[1],
                                       role |-> got[2], revoked |-> FALSE ]
    /\ UNCHANGED <<today, pivot, tasks, pc, users_from_1c, users_in_pivot, todo, to_archive,
                   step, write_failed, pulse, report, sa, pending, twice, now_msk, daily, rc,
                   override, sending, fetched, arg, res>>

\* check_access of any other handler: get_user_access_and_role(user_id)
CheckAccess(user_id) ==
    /\ pc = "idle"
    /\ \E read_ok \in Outcomes :
        LET got == get_user_access_and_role(auth_cache, auth, user_id, read_ok)
        IN  /\ user_id \in DOMAIN auth_cache => read_ok
            /\ Fault(read_ok)
            /\ auth_cache' = got[3]
            /\ access' = [ user_id |-> user_id, has_access |-> got[1], role |-> got[2],
                           revoked |-> Revoked(user_id) ]
    /\ UNCHANGED <<today, pivot, tasks, pc, users_from_1c, users_in_pivot, todo, to_archive,
                   step, write_failed, pulse, report, auth, sa, pending, twice, now_msk, daily,
                   rc, override, sending, fetched, registered, arg, res>>

\* TTLCache(ttl=3600): an hour after it was saved the entry is gone
CacheExpire(user_id) ==
    /\ pc = "idle"
    /\ user_id \in DOMAIN auth_cache
    /\ auth_cache' = clear_user_auth(auth_cache, user_id)
    /\ UNCHANGED <<today, pivot, tasks, pc, users_from_1c, users_in_pivot, todo, to_archive,
                   step, write_failed, pulse, report, auth, sa, faults, pending, twice, now_msk,
                   daily, rc, override, sending, fetched, registered, access, arg, res>>

\* process_1c_sync started on one of BotSources
StartSyncBot == StartSyncFrom(BotSources)

NextBot ==
    \/ StartSyncBot
    \/ \E snils \in SNILS : SyncUser(snils)
    \/ CheckTask
    \/ WriteTask
    \/ BeginArchive
    \/ \E snils \in SNILS : ArchiveUser(snils)
    \/ EndSyncPivot
    \/ StartAuth
    \/ \E snils \in SNILS : AuthUser(snils)
    \/ BeginDelete
    \/ \E snils \in SNILS : DeleteUser(snils)
    \/ EndSyncAuth
    \/ EndProcess
    \/ \E user_id \in MessengerIds, contact \in Contacts : HandleContact(user_id, contact)
    \/ \E user_id \in MessengerIds : CheckAccess(user_id)
    \/ \E user_id \in MessengerIds : CacheExpire(user_id)

SpecBot == Init /\ [][NextBot]_vars

-----------------------------------------------------------------------------
(* Properties *)

\* the stored row of the identity handled by the last iteration of sync_pivot
StepRow == pivot[users_in_pivot[step.snils]._id]

\* C1. Hire-date stickiness: a pivot record that holds a hire date holds the
\* same hire date after every step of a sync pass (update, archival,
\* reactivation), whatever hire date the source carries.
C1_HireDateSticky ==
    [][ \A i \in DOMAIN pivot :
           pivot[i].Date_employment # NoDateStr
              => pivot'[i].Date_employment = pivot[i].Date_employment ]_vars

\* a record with a hire date has been updated from a source row that carries
\* another hire date
C1_Witness ==
    /\ step.kind = "updated"
    /\ step.had_date
    /\ step.hire # NoDate
    /\ isoformat(step.hire) # StepRow.Date_employment
    /\ ~ users_in_pivot[step.snils].Is_archived

\* C2. Archive-then-reappear: an archived identity with a retained hire date
\* that is in the source again is never left unchanged (its update is
\* attempted unless reading the stored row raised); once its update is
\* written the record is not archived and holds the hire date kept at
\* archival, not the date of the source.
C2_ArchivedReappears ==
    (step.existed /\ step.had_date /\ users_in_pivot[step.snils].Is_archived)
       => /\ step.kind \in {"updated", "update_failed", "error"}
          /\ ~ step.pulse
          /\ step.kind = "updated"
                => /\ ~ StepRow.Is_archived
                   /\ StepRow.FIO = users_from_1c[step.snils].fio
                   /\ StepRow.Date_employment = users_in_pivot[step.snils].Date_employment

\* an archived record with a hire date has been reactivated from a source row
\* that carries a different hire date
C2_Witness ==
    /\ step.kind = "updated"
    /\ step.had_date
    /\ users_in_pivot[step.snils].Is_archived
    /\ step.hire # NoDate
    /\ isoformat(step.hire) # users_in_pivot[step.snils].Date_employment
    /\ ~ StepRow.Is_archived

\* the identities sync_pivot was given in users_in_pivot that are not in the
\* source pull and were not archived
Gone ==
    { n \in DOMAIN users_in_pivot :
        n \notin DOMAIN users_from_1c /\ users_in_pivot[n].Is_archived = FALSE }

C4_OneRecordPerIdentity ==
    \A i, j \in DOMAIN pivot : pivot[i].Name = pivot[j].Name => i = j

C6_OneTaskPerIdentityAndType ==
    \A i, j \in DOMAIN tasks :
        (tasks[i].created_for = tasks[j].created_for /\ tasks[i].Type = tasks[j].Type)
           => i = j

\* C7. Every stored pulse task records the identity of the employee it was
\* created for.
C7_TaskRecordsIdentity ==
    \A i \in DOMAIN tasks : tasks[i].SNILS = tasks[i].created_for

\* C8. Pulse eligibility: no survey type when today > hire date + 365 days,
\* otherwise exactly the types whose due date hire date + offset is strictly
\* after today; 365 days after the hire date nothing is needed, 364 days
\* after it only 1_year.
C8_NeededPolls ==
    pc = "polls_out"
       => LET Offset(t) == CASE t = "1_week" -> 7 [] t = "1_month" -> 30
                             [] t = "3_months" -> 91 [] t = "6_months" -> 183
                             [] t = "1_year" -> 365
              Types == {"1_week", "1_month", "3_months", "6_months", "1_year"}
          IN  /\ today > arg + 365 => res = <<>>
              /\ today <= arg + 365
                    => /\ Range(res) = { t \in Types : arg + Offset(t) > today }
                       /\ Len(res) = Cardinality(Range(res))
              /\ arg = today - 365 => res = <<>>
              /\ arg = today - 364 => res = <<"1_year">>

\* the function has been applied to a hire date 364 days before today
C8_Witness ==
    /\ pc = "polls_out"
    /\ arg = today - 364
    /\ res = <<"1_year">>

\* a working day: not a Saturday or Sunday and not one of the fixed holidays
WorkingDay(z) ==
    LET c == civil_from_days(z)
        m == c[2]
        d == c[3]
    IN  /\ weekday(z) \notin {5, 6}
        /\ ~ (m = 1 /\ d \in 1..8)
        /\ <<m, d>> \notin { <<2, 23>>, <<3, 8>>, <<5, 1>>, <<5, 9>>, <<6, 12>>, <<11, 4>>,
                             <<12, 31>> }

\* C9. Holiday adjustment: adjust_poll_date(d) is the earliest working day on
\* or after d; it is d exactly when d is a working day; Jan 1 becomes the
\* first date on or after Jan 9 that is not a Saturday or Sunday.
C9_HolidayAdjustment ==
    pc = "holiday_out"
       => /\ res >= arg
          /\ WorkingDay(res)
          /\ \A e \in arg .. (res - 1) : ~ WorkingDay(e)
          /\ (res = arg) <=> WorkingDay(arg)
          /\ (civil_from_days(arg)[2] = 1 /\ civil_from_days(arg)[3] = 1)
                => /\ res >= arg + 8
                   /\ weekday(res) \notin {5, 6}
                   /\ \A e \in (arg + 8) .. (res - 1) : weekday(e) \in {5, 6}

\* the function has been applied to a Jan 1 and has moved it past Jan 9
C9_Witness ==
    /\ pc = "holiday_out"
    /\ civil_from_days(arg)[2] = 1
    /\ civil_from_days(arg)[3] = 1
    /\ res > arg + 8

\* C10. Write retries: _create_single_task gives up on a write that raises
\* only after max_retries attempts.
C10_WriteRetried ==
    pulse.last.result \in {"name_error", "gave_up"} => pulse.last.attempts = max_retries

Succeeded(r) == r.result \in {"created", "exists"}

\* C11. When the task of one needed poll type fails, by a write that is given
\* up or by an exception, create_tasks still attempts every remaining needed
\* type: when it returns, each needed type has been attempted, in order.
C11_RemainingTypesAttempted ==
    (pc = "returned" /\ pulse.all_needed # <<>>)
       => /\ Len(pulse.results) = Len(pulse.all_needed)
          /\ \A i \in 1 .. Len(pulse.all_needed) :
                pulse.results[i].poll_type = pulse.all_needed[i]

\* create_tasks has returned after the first needed type failed and a later
\* type was created
C11_Witness ==
    /\ pc = "returned"
    /\ Len(pulse.results) >= 2
    /\ ~ Succeeded(pulse.results[1])
    /\ \E i \in 2 .. Len(pulse.results) : pulse.results[i].result = "created"

\* C12 as stated: create_tasks returns true exactly when at least one task was
\* created or already existed.
C12_TrueIffSomeTask ==
    pc = "returned"
       => (pulse.ret = "True"
              <=> \E i \in 1 .. Len(pulse.results) : Succeeded(pulse.results[i]))

\* C12. create_tasks returns true exactly when at least one task was created or
\* already existed, or when the hire date parses and no poll type is needed;
\* it returns false otherwise.
C12_TrueIffSomeTaskOrNoneNeeded ==
    pc = "returned"
       => (pulse.ret = "True"
              <=> \/ \E i \in 1 .. Len(pulse.results) : Succeeded(pulse.results[i])
                  \/ (_parse_date(arg) # NoDate /\ pulse.all_needed = <<>>))

\* create_tasks has returned true for an employee who needs no poll, and false
\* after every needed type failed
C12_Witness ==
    /\ pc = "returned"
    /\ \/ (pulse.ret = "True" /\ pulse.all_needed = <<>>)
       \/ (pulse.ret = "False" /\ pulse.all_needed # <<>>)

\* the calendar date three months before today: the same day of the month,
\* or the last day of that month when it is shorter
Within3Months(hire, now) ==
    LET t  == civil_from_days(now)
        ym == 12 * t[1] + (t[2] - 1) - 3
        y  == ym \div 12
        m  == (ym % 12) + 1
        d  == IF t[3] <= DaysInMonth(y, m) THEN t[3] ELSE DaysInMonth(y, m)
    IN  \/ 12 * hire[1] + (hire[2] - 1) > ym
        \/ (12 * hire[1] + (hire[2] - 1) = ym /\ hire[3] > d)

\* C13. Role assignment: the role sync_auth computes is newcomer exactly when
\* Date_employment parses and is strictly after today minus 3 months, and
\* employee otherwise (older date, missing date, date that does not parse).
C13_RoleAssignment ==
    pc = "role_out"
       => /\ res \in {EMPLOYEE, NEWCOMER}
          /\ res = NEWCOMER <=> (strptime(arg) # NoDate /\ Within3Months(arg, today))

\* the role has been computed on 31 May for a hire date of 28 February, the
\* clipped date three months before: employee
C13_Witness ==
    /\ pc = "role_out"
    /\ today = days_from_civil(2025, 5, 31)
    /\ arg = <<2025, 2, 28>>
    /\ res = EMPLOYEE

\* '+7' followed by ten digits
MobileText(phone) ==
    \E digits \in { Head(Head(phone)).digits } :
        /\ phone = PhoneText(TRUE, digits)
        /\ Len(digits) = 11
        /\ digits[1] = 7

\* C14. Every authorization row sync_auth creates has a phone that starts with
\* +7, has exactly 11 digits and is one of the phones of the pivot record of
\* its identity; no row of the table holds a landline or a malformed number.
C14_OnlyMobilePhones ==
    [][ /\ \A id \in DOMAIN auth' \ DOMAIN auth :
              /\ pc = "auth"
              /\ auth'[id].Name \in sa.active
              /\ MobileText(auth'[id].Phone)
              /\ auth'[id].Phone \in phones_to_set(sa.pivot_users[auth'[id].Name].Phones)
        /\ \A id \in DOMAIN auth' : MobileText(auth'[id].Phone) ]_vars

\* sync_auth has returned after handling an active record that holds a landline
\* next to its mobile phone, and the identity has an authorization row
C14_Witness ==
    /\ pc = "authed"
    /\ \E n \in sa.active :
          /\ \E i \in DOMAIN sa.pivot_users[n].Phones : sa.pivot_users[n].Phones[i] = Landline
          /\ n \notin DOMAIN sa.auth_users
          /\ \E id \in DOMAIN auth : auth[id].Name = n

\* C15. After sync_auth has returned with every store call succeeding, each
\* row an active identity already had carries the full name and the role
\* computed from the pivot record in this pass, and the identity has a row for
\* each mobile phone of the record.
C15_ExistingRowsRefreshed ==
    (pc = "authed" /\ sa.reads_ok /\ sa.writes_ok)
       => \A n \in sa.active \cap DOMAIN sa.auth_users :
             LET record == sa.pivot_users[n] IN
             /\ \A r \in sa.auth_users[n] :
                   r._id \in DOMAIN auth
                      => /\ auth[r._id].FIO = record.FIO
                         /\ auth[r._id].Role = role_of(record.Date_employment, today)
             /\ \A ph \in { x \in phones_to_set(record.Phones) : MobileText(x) } :
                   \E id \in DOMAIN auth : auth[id].Name = n /\ auth[id].Phone = ph

\* C16. The authorization table holds at most one row per identity and phone.
C16_OneRowPerIdentityAndPhone ==
    \A i, j \in DOMAIN auth :
        (auth[i].Name = auth[j].Name /\ auth[i].Phone = auth[j].Phone) => i = j

\* C17. When process_1c_sync has run sync_auth to its end with no failed pivot
\* write and no failed delete, every identity of users_in_pivot that is
\* absent from the source and was not archived is archived in the pivot table
\* and has no authorization row.
C17_GoneIdentityLosesAccess ==
    (pc = "authed" /\ ~ write_failed /\ sa.writes_ok)
       => \A n \in Gone :
             /\ pivot[users_in_pivot[n]._id].Is_archived = TRUE
             /\ \A id \in DOMAIN auth : auth[id].Name # n

\* the identities this run of sync_pivot has archived, and has reactivated
ArchivedNow ==
    { n \in DOMAIN users_in_pivot :
        ~ users_in_pivot[n].Is_archived /\ pivot[users_in_pivot[n]._id].Is_archived }

ReactivatedNow ==
    { n \in DOMAIN users_in_pivot :
        users_in_pivot[n].Is_archived /\ ~ pivot[users_in_pivot[n]._id].Is_archived }

FirstLoopOver == pc \in {"archive", "synced"}

\* C19. A failure while sync_pivot handles one identity never aborts the
\* batch: when the first loop is over every source identity has been handled,
\* and when sync_pivot returns the archival of every identity to archive has
\* been attempted.
C19_FailureDoesNotAbort ==
    /\ FirstLoopOver => report.handled = DOMAIN users_from_1c
    /\ pc = "synced" => report.archive_tried = users_to_archive

\* sync_pivot has returned after a failure on one of two source identities
\* and after the other one was written
C19_Witness ==
    /\ pc = "synced"
    /\ (write_failed \/ report.errors = 1)
    /\ report.created + report.updated + 1 = Cardinality(DOMAIN users_from_1c)
    /\ report.unchanged = 0
    /\ Cardinality(report.handled) = 2

\* C20. Every source identity sync_pivot has handled is counted in exactly one
\* of created, updated, unchanged and errors.
C20_EveryIdentityCounted ==
    FirstLoopOver
       => report.created + report.updated + report.unchanged + report.errors
             = Cardinality(DOMAIN users_from_1c)

\* the stored row holds what the source says of user: the change detector
\* finds no difference, the row is active, and a hire date of the source has
\* been adopted if the row had none
UpToDate(row, user) ==
    /\ ~ pivot_data_changed(row, to_pivot_table_format(user))
    /\ ~ row.Is_archived
    /\ user.date_employment # NoDate => row.Date_employment # NoDateStr

\* C21: an identity whose pivot create or update failed is handled again by
\* the next pass that has it in the source, and when the write of that pass
\* succeeds the pivot holds a row of the identity that is up to date with the
\* source (created, or updated with a missing hire date adopted)
C21_RetriedNextPass ==
    [][ \A n \in pending :
          (pc = "users" /\ n \in todo /\ n \notin todo'
              /\ step'.kind \in {"created", "updated", "unchanged"})
          => \E i \in DOMAIN pivot' :
                /\ pivot'[i].Name = n
                /\ UpToDate(pivot'[i], users_from_1c[n]) ]_vars

\* a pass has updated an identity whose update failed before, adopting the
\* hire date the row lacked
C21_Witness ==
    /\ pc \in {"users", "tasks"}
    /\ step.kind = "updated"
    /\ step.date_was_added_now
    /\ step.retried
    /\ step.snils \notin pending
    /\ ~ write_failed

\* no store call of the running pass has failed in the state the step leads to
CleanSoFar ==
    /\ faults' = twice.faults0
    /\ ~ write_failed'
    /\ sa'.writes_ok

\* C22: a pass that repeats the source of the pass before it, on the same day,
\* when no store call failed in either, creates, updates and archives no pivot
\* row, creates, updates and deletes no authorization row and starts no pulse
\* task
C22_SecondRunIsNoOp ==
    [][ (twice.same /\ pc # "idle" /\ CleanSoFar)
        => /\ pivot' = pivot
           /\ auth' = auth
           /\ tasks' = tasks
           /\ pc' \notin {"tasks", "write"}
           /\ report'.created = 0 /\ report'.updated = 0 /\ report'.archived = 0 ]_vars

\* C23: a pivot record written from an aggregated employee does not differ,
\* for pivot_data_changed, from the candidate built again from the same
\* source rows, whatever the number of previous surnames, phones and
\* employments
C23_NoChangeOnSameRows ==
    (pc = "aggregate_out" /\ arg.again = arg.rows
        /\ res.first \notin {Skipped, Raised} /\ res.again \notin {Skipped, Raised})
    => ~ pivot_data_changed(to_pivot_table_format(res.first), to_pivot_table_format(res.again))

\* the employments of an aggregated employee, as a set
EmploymentSet(user) == Range(user.employments)

\* C24: aggregating the same rows in another order gives the same decision
\* whether the identity is produced, and for a produced identity the same
\* phone set, earliest hire date and set of employments
C24_AggregationDeterminism ==
    pc = "aggregate_out"
    => /\ (res.first \in {Skipped, Raised}) = (res.again \in {Skipped, Raised})
       /\ res.first = Skipped <=> res.again = Skipped
       /\ (res.first \notin {Skipped, Raised} /\ res.again \notin {Skipped, Raised})
            => /\ Range(res.first.phones) = Range(res.again.phones)
               /\ res.first.date_employment = res.again.date_employment
               /\ EmploymentSet(res.first) = EmploymentSet(res.again)


\* the instants a job with the times ts is due at, while it is followed
Occurrences(ts) == { d * DAY + t : d \in 0 .. (MaxDays - 1), t \in ts }

\* C25: after any invocation of a scheduled job, whether the task returned or
\* raised, the loop arms again and the task is started again for the nearest
\* scheduled time that follows the invocation
C25_LoopRearms ==
    \A job \in Jobs :
        ( /\ daily[job].outcome \in {"returned", "raised"}
          /\ daily[job].pc # "running"
          /\ daily[job].due <= Horizon )
        ~> ( /\ daily[job].pc = "running"
             /\ daily[job].armed = daily[job].due )

\* an invocation that raised has been followed by another invocation
C25_Witness ==
    \E job \in Jobs :
        /\ daily[job].pc = "running"
        /\ daily[job].outcome = "raised"
        /\ Cardinality(daily[job].fired) = 2

\* C26: the task is never started twice for the same scheduled occurrence,
\* whatever the durations of the invocations and with sleeps that end up to
\* MaxJitter seconds early or late
C26_NoDoubleFire ==
    [][ \A job \in Jobs :
           daily'[job].inflight > daily[job].inflight
           => daily[job].armed \notin daily[job].fired ]_vars

\* a sleep ended before the scheduled instant r, the task took no time, and
\* the loop, back at its top a second after r, armed for a later occurrence
C26_Witness ==
    \E job \in Jobs : \E r \in daily[job].fired :
        /\ daily[job].pc = "sleeping"
        /\ now_msk = r + 1
        /\ daily[job].armed > r

\* C27: in a running bot process the task of the sync job has been started
\* for each of its two times of day that has passed, on every day after the
\* day the process started
C27_SyncAtConfiguredTimes ==
    \A r \in Occurrences(sync_times) :
        (r >= DAY /\ now_msk > r + MaxJitter) => r \in daily["sync"].fired

PivotRowsOf(id) == { i \in DOMAIN pivot : pivot[i].Name = auth[id].Name }

\* C29: when a run of the role check ends in which no store call failed,
\* every row that had the role newcomer when the run began, and whose pivot
\* hire date is not after today minus three months, has the role employee
C29_RecheckPromotes ==
    [][ (pc = "roles" /\ pc' = "idle" /\ rc.calls_ok)
        => \A id \in rc.had :
              (/\ id \in DOMAIN auth'
               /\ \E i \in PivotRowsOf(id) :
                     /\ pivot[i].Date_employment # NoDateStr
                     /\ strptime(pivot[i].Date_employment) <= minus_three_months(today))
              => auth'[id].Role = EMPLOYEE ]_vars

\* C30: the role the admin command wrote on a row is changed by no step
\* other than another admin command and the daily role check
C30_OverrideSticky ==
    [][ \A id \in DOMAIN override :
           (/\ id \in DOMAIN auth /\ id \in DOMAIN auth'
            /\ auth[id] = override[id]
            /\ auth'[id].Role # override[id].Role)
           => (pc = "roles" \/ override' # override) ]_vars

\* C31: the admin commands and the sync job are not mutually excluded. When
\* an iteration of sync_auth changes the role of a row that change_user_role
\* wrote after the first get_auth() of the pass, the copy of the row in that
\* read differed from the FIO or the role of the pivot record, and the role
\* written is the one computed from the pivot record
C31_StaleOverwrite ==
    [][ (pc = "auth" /\ sa'.todo # sa.todo)
        => \A id \in sa.changed \cap DOMAIN auth :
              auth'[id].Role # auth[id].Role
              => LET snils      == auth[id].Name
                     pivot_user == sa.pivot_users[snils]
                     role       == role_of(pivot_user.Date_employment, today)
                 IN  /\ snils \in DOMAIN sa.auth_users
                     /\ \E r \in sa.auth_users[snils] :
                           r._id = id /\ (r.FIO # pivot_user.FIO \/ r.Role # role)
                     /\ auth'[id].Role = role ]_vars

\* the role change_user_role wrote during the pass has been overwritten by
\* the pass
C31_Witness ==
    /\ pc \in {"auth", "delete", "authed"}
    /\ \E id \in sa.changed \cap DOMAIN auth \cap DOMAIN override :
          /\ auth[id].Role # override[id].Role
          /\ auth[id].Role = role_of(sa.pivot_users[auth[id].Name].Date_employment, today)

\* +7 followed by 10 digits, or NNN-NN-NN
Canonical(s) ==
    \/ /\ Len(s) = 12
       /\ s[1] = "+" /\ s[2] = "7"
       /\ \A i \in 3 .. 12 : s[i] \in Range(DIGITS)
    \/ /\ Len(s) = 9
       /\ s[4] = "-" /\ s[7] = "-"
       /\ \A i \in {1, 2, 3, 5, 6, 8, 9} : s[i] \in Range(DIGITS)

\* C32: for every input string normalize_phone returns None or a canonical
\* number, and normalize_phone of a canonical result is that result
C32_NormalizeIdempotent ==
    pc = "phone_out"
    => /\ res.first = <<>> \/ Canonical(res.first)
       /\ res.again = res.first

\* a number written with a leading 8 and hyphens has been normalised to +7...
C32_Witness ==
    /\ pc = "phone_out"
    /\ Len(arg) = 22 /\ arg[1] = "8" /\ arg[2] = "-"
    /\ Canonical(res.first) /\ res.first[1] = "+"
    /\ res.again = res.first

\* C33: when sync_pivot has returned and no write of it failed and no
\* iteration of it raised, no row of the pivot table that carries an identity
\* of the source pull is archived
C33_PresentNotArchived ==
    (pc = "synced" /\ ~ write_failed /\ report.errors = 0)
       => \A i \in DOMAIN pivot :
             pivot[i].Name \in DOMAIN users_from_1c => pivot[i].Is_archived = FALSE

\* the part of C33 that holds: an archived record of users_in_pivot whose
\* identity is in the source pull is updated with Is_archived cleared
ArchivedArgumentCleared ==
    (pc = "synced" /\ ~ write_failed /\ report.errors = 0)
       => \A n \in DOMAIN users_from_1c \cap DOMAIN users_in_pivot :
             users_in_pivot[n].Is_archived = TRUE => pivot[users_in_pivot[n]._id].Is_archived = FALSE

\* C34: the status of a pulse task changes only from waiting to sent or to
\* declined, and _send_single_pulse is called only for a task that is
\* waiting, is due on the day of the pass and was never passed to it before
C34_StatusOneWay ==
    [][ \A i \in DOMAIN tasks :
          /\ tasks'[i].Status # tasks[i].Status
                => tasks[i].Status = "waiting" /\ tasks'[i].Status \in {"sent", "declined"}
          /\ sending'.sends[i] # sending.sends[i]
                => /\ tasks[i].Status = "waiting"
                   /\ tasks[i].Data_poll = isoformat(today)
                   /\ sending.sends[i] = 0 ]_vars

\* a task was sent on the first day, and the pass of the second day has
\* ended without sending it again
C34_Witness ==
    /\ Cardinality(daily["pulse"].fired) = 2
    /\ daily["pulse"].pc = "cooldown"
    /\ \E i, j \in DOMAIN tasks :
          /\ tasks[i].Status = "sent" /\ sending.sends[i] = 1
          /\ tasks[i].Data_poll = isoformat(Today0)
          /\ tasks[j].Status = "declined" /\ tasks[j].Data_poll = isoformat(Today0 + 1)

IncompletePullDeleted ==
    /\ ~fetched.complete
    /\ pc = "authed"
    /\ \E i \in DOMAIN pivot :
          /\ pivot[i].Is_archived
          /\ pivot[i].Name \in DOMAIN fetched.table \ DOMAIN users_from_1c
          /\ pivot[i].Name \in DOMAIN sa.auth_users
          /\ \A id \in DOMAIN auth : auth[id].Name # pivot[i].Name

\* the iteration of sync_pivot has just created the pivot record of the
\* identity, hired within the last year
RecordCreated(snils) ==
    /\ step.kind = "created"
    /\ step.snils = snils
    /\ step.hire # NoDate
    /\ NotOlderThanYear(step.hire)

\* every pivot record of the identity has a task of each survey type that
\* _get_needed_polls gives for its hire date
NeededTasksExist(snils) ==
    \A i \in DOMAIN pivot :
        pivot[i].Name = snils =>
            \A t \in Range(_get_needed_polls(_parse_date(pivot[i].Date_employment), today)) :
                \E j \in DOMAIN tasks : tasks[j].created_for = snils /\ tasks[j].Type = t

\* the identity has left the source: a pivot record of it is archived
RecordArchived(snils) ==
    \E i \in DOMAIN pivot : pivot[i].Name = snils /\ pivot[i].Is_archived

\* C36: once the pivot record of an identity hired within the last year is
\* created, the tasks of all needed survey types eventually exist (a later
\* pass creates what the creating pass did not), unless the identity leaves
\* the source or the task table is full
C36_MissingTasksCreated ==
    \A snils \in SNILS :
        RecordCreated(snils) ~>
            (NeededTasksExist(snils) \/ RecordArchived(snils) \/ Len(tasks) = MaxTasks)

\* C37: a call of get_user_access_and_role made after sync_auth has deleted
\* the authorization rows of the user reports no access
C37_DeletedMeansNoAccess == access.revoked => ~ access.has_access

\* C39: a messenger id written to an authorization row is not replaced by a
\* later registration, and a contact whose phone matches no authorization row
\* writes nothing
C39_FirstRegistrationKept ==
    [][ /\ \A id \in DOMAIN auth \cap DOMAIN auth' :
              auth[id].ID_messenger # "" => auth'[id].ID_messenger = auth[id].ID_messenger
        /\ \A user_id \in MessengerIds, contact \in Contacts :
              HandleContact(user_id, contact) /\ PhoneRows(normalize_phone(contact)) = {}
                  => auth' = auth ]_vars

\* C38: when sync_auth has completed and no store call has failed, every authorization row of an active identity carries a phone of
\* the mobile phones of the identity's pivot record
C38_RowsFollowPivotPhones ==
    (pc = "authed" /\ faults = 0) =>
        \A id \in DOMAIN auth :
            auth[id].Name \in sa.active =>
                auth[id].Phone \in mobile_phones(sa.pivot_users[auth[id].Name])

====
